---- MODULE Spec2Model ----
(***************************************************************************)
(* State-machine model of the bond trading system under src/FinalProject. *)
(*                                                                         *)
(* Prices are doubles in the code.  Every price that occurs is a multiple *)
(* of 1/512 (fractional prices are multiples of 1/256 and the only        *)
(* arithmetic on them is +, -, and /2.0), all of which a double holds     *)
(* exactly, so a price is modelled by the integer price*512.              *)
(* Strings that are parsed are sequences of one-character strings.        *)
(* Times are integer milliseconds.                                        *)
(***************************************************************************)
EXTENDS Integers, Sequences, FiniteSets

\* ------------------------------------------------------------------ bounds
MaxPriceLines == 3
MaxTradeEvents == 3
MaxInquiryEvents == 3
MaxMdLines == 21

\* ------------------------------------------------------- generic helpers
\* unordered_map::operator[] assignment: insert or overwrite
Put(m, k, v) == [x \in (DOMAIN m) \cup {k} |-> IF x = k THEN v ELSE m[x]]

EmptyMap == [x \in {} |-> 0]

\* ------------------------------------------------------------ soa.hpp
Cusips == {"91282CFX4", "91282CFY2"}

GetProductType(cusip) == [productId |-> cusip, ticker |-> "T"]

DigitVal(c) ==
  CASE c = "0" -> 0 [] c = "1" -> 1 [] c = "2" -> 2 [] c = "3" -> 3
    [] c = "4" -> 4 [] c = "5" -> 5 [] c = "6" -> 6 [] c = "7" -> 7
    [] c = "8" -> 8 [] c = "9" -> 9

\* stod / stol on a string of decimal digits
RECURSIVE StoI(_)
StoI(s) ==
  IF s = <<>> THEN 0
  ELSE StoI(SubSeq(s, 1, Len(s) - 1)) * 10 + DigitVal(s[Len(s)])

\* string::find of one character: the 1-based index of its first occurrence
Find(s, ch) == CHOOSE i \in 1..Len(s) : s[i] = ch /\ \A j \in 1..(i - 1) : s[j] # ch

\* fractional price xxx-yyz to price*512
GetNormalPrice(price) ==
  LET pos_dot == Find(price, "-")
      fp == SubSeq(price, 1, pos_dot - 1)
      sp == SubSeq(price, pos_dot + 1, pos_dot + 2)
      tp0 == SubSeq(price, pos_dot + 3, pos_dot + 3)
      tp == IF tp0 = <<"+">> THEN <<"4">> ELSE tp0
  IN  StoI(fp) * 512 + StoI(sp) * 16 + StoI(tp) * 2

\* ------------------------------------------------------------ inputs
\* 99-160, 100-00+
MidInputs == { <<"9", "9", "-", "1", "6", "0">>, <<"1", "0", "0", "-", "0", "0", "+">> }
\* 0-000, 0-001
SpreadInputs == { <<"0", "-", "0", "0", "0">>, <<"0", "-", "0", "0", "1">> }
\* milliseconds elapsed on the wall clock between two price lines
DtInputs == {100, 300, 301}

VARIABLES
  \* pricingService
  prices, priceLines,
  \* AlgoStreamingService
  algoStreams, isFirst,
  \* StreamingService, HistoricalDataService<PriceStream>
  priceStreams, historicalStreams, streamingFile,
  \* GUIService
  guis, lastTime, now, guiFile,
  \* history: the wall-clock time at which each price reached the GUI listener
  arrivals,
  \* history: what each price reached, in order: "streaming.txt" when its
  \* stream was written, "gui" when the GUI throttle was handed it
  priceTrace

priceVars == <<prices, priceLines, algoStreams, isFirst, priceStreams,
               historicalStreams, streamingFile, guis, lastTime, now, guiFile,
               arrivals, priceTrace>>

\* ------------------------------------------------ algostreamingservice.hpp
BoolToInt(b) == IF b THEN 1 ELSE 0

\* a slip: the whole spread is taken off the mid
BidPriceFullSpread(price) == price.mid - price.bidOfferSpread

BidPrice(price) == price.mid - price.bidOfferSpread \div 2

\* a slip: the spread is taken off the mid on the offer side
OfferPriceBelowMid(price) == price.mid - price.bidOfferSpread

OfferPrice(price) == price.mid + price.bidOfferSpread \div 2

\* a slip: the flag is read the other way round
VisibleQuantityFromTrue(first) == (BoolToInt(~first) + 1) * 10000000

VisibleQuantity(first) == (BoolToInt(first) + 1) * 10000000

HiddenQuantity(visibleQuantity) == visibleQuantity * 2

PriceStreamOrder(price, visibleQuantity, hiddenQuantity, side) ==
  [price |-> price, visibleQuantity |-> visibleQuantity,
   hiddenQuantity |-> hiddenQuantity, side |-> side]

\* the PriceStream that PublishPrice builds from a Price and the isFirst flag
AlgoStream(price, first) ==
  LET visibleQuantity == VisibleQuantity(first)
      hiddenQuantity == HiddenQuantity(visibleQuantity)
  IN  [product |-> price.product,
       bidOrder |-> PriceStreamOrder(BidPrice(price), visibleQuantity, hiddenQuantity, "BID"),
       offerOrder |-> PriceStreamOrder(OfferPrice(price), visibleQuantity, hiddenQuantity, "OFFER")]

\* HistoricalDataService<PriceStream>::OnMessage: store, then append to streaming.txt
HistoricalStreamingOnMessage(data) ==
  /\ historicalStreams' = Put(historicalStreams, data.product.productId, data)
  /\ streamingFile' = Append(streamingFile, data)

\* a slip: the stream is stored and not passed on
StreamingServiceOnMessageStoresOnly(data) ==
  /\ priceStreams' = Put(priceStreams, data.product.productId, data)
  /\ UNCHANGED <<historicalStreams, streamingFile>>

\* StreamingService::OnMessage, reached through AlgoStreamingListener::ProcessAdd
\* and PublishPrice; its one listener is the historical streaming service
StreamingServiceOnMessage(data) ==
  /\ priceStreams' = Put(priceStreams, data.product.productId, data)
  /\ HistoricalStreamingOnMessage(data)

\* AlgoStreamingService::OnMessage; its one listener is the streaming service
AlgoStreamingOnMessage(data) ==
  /\ algoStreams' = Put(algoStreams, data.product.productId, data)
  /\ StreamingServiceOnMessage(data)

PublishPrice(price) ==
  /\ isFirst' = ~isFirst
  /\ AlgoStreamingOnMessage(AlgoStream(price, isFirst))

\* ------------------------------------------------------- guiservice.hpp
throttle == 300

\* a slip: a third of the throttle is waited for
ThrottleThirdElapsed(curTime, last) == curTime - last > throttle \div 3

\* a slip: the time is measured from the start, not from the last record
ThrottleSinceStart(curTime, last) == curTime > throttle

\* time_duration > throttle
ThrottleElapsed(curTime, last) == curTime - last > throttle

\* a slip: a dropped update restarts the throttle
ThroettleStreamingPricesRestarts(price, curTime) ==
  IF ThrottleElapsed(curTime, lastTime)
  THEN /\ guiFile' = Append(guiFile, [time |-> curTime, price |-> price])
       /\ guis' = Put(guis, price.product.productId, price)
       /\ lastTime' = curTime
  ELSE lastTime' = curTime /\ UNCHANGED <<guiFile, guis>>

\* curTime is the wall clock when the listener runs
ThroettleStreamingPrices(price, curTime) ==
  IF ThrottleElapsed(curTime, lastTime)
  THEN /\ guiFile' = Append(guiFile, [time |-> curTime, price |-> price])
       /\ guis' = Put(guis, price.product.productId, price)
       /\ lastTime' = curTime
  ELSE UNCHANGED <<guiFile, guis, lastTime>>

\* ---------------------------------------------------- pricingservice.hpp
\* the listeners of the pricing service in registration order (main.cpp)
pricingListeners == <<"AlgoStreamingListener", "GUIPricingListener">>

\* where ProcessAdd of a listener of the pricing service ends
ProcessAddReaches(l) == IF l = "AlgoStreamingListener" THEN "streaming.txt" ELSE "gui"

\* the for_each over the listeners, one after the other
ListenersReach(ls) == [i \in 1..Len(ls) |-> ProcessAddReaches(ls[i])]

\* listeners in registration order (main.cpp): algo-streaming, then GUI
PricingOnMessage(data, curTime) ==
  /\ prices' = Put(prices, data.product.productId, data)
  /\ priceTrace' = priceTrace \o ListenersReach(pricingListeners)
  /\ PublishPrice(data)
  /\ ThroettleStreamingPrices(data, curTime)

\* one iteration of pricingConnector::Subscribe's loop: one line of prices.txt
PricingSubscribeLine ==
  /\ priceLines < MaxPriceLines
  /\ \E productId \in Cusips, midStr \in MidInputs, spreadStr \in SpreadInputs, dt \in DtInputs :
       LET newPrice == [product |-> GetProductType(productId),
                        mid |-> GetNormalPrice(midStr),
                        bidOfferSpread |-> GetNormalPrice(spreadStr)]
       IN  /\ now' = now + dt
           /\ arrivals' = Append(arrivals, now + dt)
           /\ PricingOnMessage(newPrice, now + dt)
  /\ priceLines' = priceLines + 1

InitPrice ==
  /\ prices = EmptyMap /\ priceLines = 0
  /\ algoStreams = EmptyMap /\ isFirst = FALSE
  /\ priceStreams = EmptyMap /\ historicalStreams = EmptyMap /\ streamingFile = <<>>
  /\ guis = EmptyMap /\ lastTime = 0 /\ now = 0 /\ guiFile = <<>>
  /\ arrivals = <<>> /\ priceTrace = <<>>

\* =================================================================
\* market data -> algo execution -> execution -> trade booking ->
\* position -> risk, with the three persistence services
\* =================================================================
VARIABLES
  \* marketDataService
  orderBooks,
  \* AlgoExecutionService
  algoExecutions, isBuy, numID,
  \* ExecutionService, HistoricalDataService<ExecutionOrder>
  executionOrders, historicalExecutions, executionsFile,
  \* TradeBookingService and its ExecutionListener
  trades, num,
  \* PositionService, HistoricalDataService<Position>
  positions, historicalPositions, positionsFile,
  \* RiskService, HistoricalDataService<PV01>
  pvs, historicalRisks, riskFile,
  \* history: the trades handed to trade booking (file lines and the trades
  \* derived from execution orders), one entry per trade
  booked,
  \* history: the order books delivered to algo execution, each with the
  \* number of execution orders emitted while it was processed
  mdLog,
  tradeEvents,
  \* history: one entry per call of PositionService::AddTrade, with the
  \* position store before and after it and what its listeners were given
  positionCalls,
  \* history: the name of the output file of every record written, in the
  \* order the records are written
  written

tradeVars == <<orderBooks, algoExecutions, isBuy, numID, executionOrders,
               historicalExecutions, executionsFile, trades, num, positions,
               historicalPositions, positionsFile, pvs, historicalRisks, riskFile,
               booked, mdLog, tradeEvents, positionCalls, written>>

\* the services of the trade pipeline as one value, so that a handler that
\* runs twice on one call stack can be composed
World ==
  [orderBooks |-> orderBooks, algoExecutions |-> algoExecutions, isBuy |-> isBuy,
   numID |-> numID, executionOrders |-> executionOrders,
   historicalExecutions |-> historicalExecutions, executionsFile |-> executionsFile,
   trades |-> trades, num |-> num, positions |-> positions,
   historicalPositions |-> historicalPositions, positionsFile |-> positionsFile,
   pvs |-> pvs, historicalRisks |-> historicalRisks, riskFile |-> riskFile,
   booked |-> booked, mdLog |-> mdLog, positionCalls |-> positionCalls,
   written |-> written]

\* w is evaluated once and its fields are then assigned
SetWorld(w) ==
  \E v \in {w} :
    /\ orderBooks' = v.orderBooks /\ algoExecutions' = v.algoExecutions
    /\ isBuy' = v.isBuy /\ numID' = v.numID
    /\ executionOrders' = v.executionOrders
    /\ historicalExecutions' = v.historicalExecutions
    /\ executionsFile' = v.executionsFile
    /\ trades' = v.trades /\ num' = v.num
    /\ positions' = v.positions /\ historicalPositions' = v.historicalPositions
    /\ positionsFile' = v.positionsFile
    /\ pvs' = v.pvs /\ historicalRisks' = v.historicalRisks /\ riskFile' = v.riskFile
    /\ booked' = v.booked /\ mdLog' = v.mdLog
    /\ positionCalls' = v.positionCalls
    /\ written' = v.written

\* ------------------------------------------------------------ soa.hpp
\* GetPV01, times 10000
GetPV01(cusip) ==
  CASE cusip = "91282CFX4" -> 188
    [] cusip = "91282CGA3" -> 276
    [] cusip = "91282CFZ9" -> 452
    [] cusip = "91282CFY2" -> 617
    [] cusip = "91282CFV8" -> 862
    [] cusip = "912810TM0" -> 1442
    [] cusip = "912810TL2" -> 1992

DigitChar(d) ==
  CASE d = 0 -> "0" [] d = 1 -> "1" [] d = 2 -> "2" [] d = 3 -> "3" [] d = 4 -> "4"
    [] d = 5 -> "5" [] d = 6 -> "6" [] d = 7 -> "7" [] d = 8 -> "8" [] d = 9 -> "9"

\* std::to_string of a non-negative int
RECURSIVE to_string(_)
to_string(n) ==
  IF n < 10 THEN <<DigitChar(n)>> ELSE to_string(n \div 10) \o <<DigitChar(n % 10)>>

\* ------------------------------------------------------ riskservice.hpp
RECURSIVE SumOver(_, _)
SumOver(f, keys) ==
  IF keys = {} THEN 0
  ELSE LET k == CHOOSE x \in keys : TRUE IN f[k] + SumOver(f, keys \ {k})

\* Position::GetAggregatePosition
GetAggregatePosition(position) == SumOver(position.positions, DOMAIN position.positions)

\* HistoricalDataService<PV01>::OnMessage: store, then append to risk.txt
HistoricalRiskOnMessage(w, data) ==
  [w EXCEPT !.historicalRisks = Put(@, data.product.productId, data),
            !.riskFile = Append(@, data),
            !.written = Append(@, "risk.txt")]

\* a slip: the risk service's listeners are not invoked
RiskOnMessageSilent(w, data) == [w EXCEPT !.pvs = Put(@, data.product.productId, data)]

\* RiskService::OnMessage; its one listener is the historical risk service
RiskOnMessage(w, data) ==
  HistoricalRiskOnMessage([w EXCEPT !.pvs = Put(@, data.product.productId, data)], data)

\* a slip: the quantity is the position of book TRSY1 alone
RiskAddPositionOneBook(w, position) ==
  LET pv01 == [product |-> position.product,
               pv01 |-> GetPV01(position.product.productId),
               quantity |-> IF "TRSY1" \in DOMAIN position.positions
                            THEN position.positions["TRSY1"] ELSE 0]
  IN  RiskOnMessage(w, pv01)

\* RiskService::AddPosition, reached through PositionListener::ProcessAdd
RiskAddPosition(w, position) ==
  LET pv01 == [product |-> position.product,
               pv01 |-> GetPV01(position.product.productId),
               quantity |-> GetAggregatePosition(position)]
  IN  RiskOnMessage(w, pv01)

\* -------------------------------------------------- positionservice.hpp
\* HistoricalDataService<Position>::OnMessage: store, then append to positions.txt
HistoricalPositionOnMessage(w, data) ==
  [w EXCEPT !.historicalPositions = Put(@, data.product.productId, data),
            !.positionsFile = Append(@, data),
            !.written = Append(@, "positions.txt")]

\* PositionService::OnMessage: no store update, listeners in registration
\* order (main.cpp): risk, then historical position
PositionOnMessage(w, data) == HistoricalPositionOnMessage(RiskAddPosition(w, data), data)

\* a slip: the quantity replaces the position of the book
AddPositionReplaces(position, book, quantity) ==
  [position EXCEPT !.positions = Put(@, book, quantity)]

\* Position::AddPosition: positions[_book] += _position
AddPosition(position, book, quantity) ==
  [position EXCEPT !.positions =
     Put(@, book, (IF book \in DOMAIN @ THEN @[book] ELSE 0) + quantity)]

\* a slip: the side is ignored
UnsignedQuantity(trade) == trade.quantity

\* the signed quantity PositionService::AddTrade adds
SignedQuantity(trade) == IF trade.side = "SELL" THEN 0 - trade.quantity ELSE trade.quantity

\* PositionService::AddTrade, reached through TradeBookingListener::ProcessAdd
PositionAddTrade(w, trade) ==
  LET productId == trade.product.productId
      old == IF productId \in DOMAIN w.positions
             THEN w.positions[productId]
             ELSE [product |-> trade.product, positions |-> EmptyMap]
      new == AddPosition(old, trade.book, SignedQuantity(trade))
      w1 == PositionOnMessage([w EXCEPT !.positions = Put(@, productId, new)], new)
  IN  [w1 EXCEPT !.positionCalls =
         Append(@, [trade |-> trade, before |-> w.positions, after |-> w1.positions,
                    toRisk |-> SubSeq(w1.riskFile, Len(w.riskFile) + 1, Len(w1.riskFile)),
                    toHistorical |-> SubSeq(w1.positionsFile, Len(w.positionsFile) + 1,
                                            Len(w1.positionsFile))])]

\* ----------------------------------------------- tradebookingservice.hpp
\* a slip: a trade whose tradeId is already stored is not stored
TradeBookingOnMessageKeepsFirst(w, data) ==
  PositionAddTrade([w EXCEPT !.trades = IF data.tradeId \in DOMAIN @ THEN @
                                        ELSE Put(@, data.tradeId, data)], data)

\* TradeBookingService::OnMessage; its one listener is the position service
TradeBookingOnMessage(w, data) ==
  PositionAddTrade([w EXCEPT !.trades = Put(@, data.tradeId, data)], data)

TradeBookingAddTrade(w, trade) == TradeBookingOnMessage(w, trade)

\* the book ExecutionListener::ProcessAdd picks from its counter
BookOf(n) == IF n % 3 = 0 THEN "TRSY1" ELSE IF n % 3 = 1 THEN "TRSY2" ELSE "TRSY3"

\* the counter after ExecutionListener::ProcessAdd: no statement changes num
NextNum(n) == n

\* a slip: the hidden quantity is left out of the trade
DerivedTradeVisibleOnly(order, n) ==
  [product |-> order.product,
   tradeId |-> <<"TRADE-EXECUTE-">> \o order.orderId,
   price |-> order.price,
   book |-> BookOf(n),
   quantity |-> order.visibleQuantity,
   side |-> IF order.side = "BID" THEN "BUY" ELSE "SELL"]

\* the trade ExecutionListener::ProcessAdd derives from an execution order
DerivedTrade(order, n) ==
  [product |-> order.product,
   tradeId |-> <<"TRADE-EXECUTE-">> \o order.orderId,
   price |-> order.price,
   book |-> BookOf(n),
   quantity |-> order.visibleQuantity + order.hiddenQuantity,
   side |-> IF order.side = "BID" THEN "BUY" ELSE "SELL"]

\* ExecutionListener::ProcessAdd: service->OnMessage(trade), then
\* service->AddTrade(trade)
ExecutionListenerProcessAdd(w, order) ==
  LET trade == DerivedTrade(order, w.num)
      w0 == [w EXCEPT !.booked = Append(@, trade), !.num = NextNum(@)]
  IN  TradeBookingAddTrade(TradeBookingOnMessage(w0, trade), trade)

\* ---------------------------------------------- bondexecutionservice.hpp
\* HistoricalDataService<ExecutionOrder>::OnMessage: store, then append to executions.txt
HistoricalExecutionOnMessage(w, data) ==
  [w EXCEPT !.historicalExecutions = Put(@, data.product.productId, data),
            !.executionsFile = Append(@, data),
            !.written = Append(@, "executions.txt")]

\* a slip: the historical listener is registered twice
ExecutionServiceOnMessageHistoricalTwice(w, data) ==
  HistoricalExecutionOnMessage(
    HistoricalExecutionOnMessage(
      ExecutionListenerProcessAdd(
        [w EXCEPT !.executionOrders = Put(@, data.product.productId, data)], data),
      data),
    data)

\* a slip: the historical listener is registered before trade booking
ExecutionServiceOnMessageHistoricalFirst(w, data) ==
  ExecutionListenerProcessAdd(
    HistoricalExecutionOnMessage(
      [w EXCEPT !.executionOrders = Put(@, data.product.productId, data)], data),
    data)

\* ExecutionService::OnMessage, reached through AlgoExecutionListener::ProcessAdd
\* and ExecuteOrder; listeners in registration order (main.cpp): trade
\* booking, then historical execution
ExecutionServiceOnMessage(w, data) ==
  HistoricalExecutionOnMessage(
    ExecutionListenerProcessAdd(
      [w EXCEPT !.executionOrders = Put(@, data.product.productId, data)], data),
    data)

\* ----------------------------------------------- algoexecutionservice.hpp
\* AlgoExecutionService::OnMessage; its one listener is the execution service
AlgoExecutionOnMessage(w, data) ==
  ExecutionServiceOnMessage(
    [w EXCEPT !.algoExecutions = Put(@, data.product.productId, data)], data)

ExecutionOrder(product, side, orderId, orderType, price, visibleQuantity, hiddenQuantity, parentOrderId, isChildOrder) ==
  [product |-> product, side |-> side, orderId |-> orderId, orderType |-> orderType,
   price |-> price, visibleQuantity |-> visibleQuantity,
   hiddenQuantity |-> hiddenQuantity, parentOrderId |-> parentOrderId,
   isChildOrder |-> isChildOrder]

\* a slip: the direction is never alternated
KeepIsBuy(b) == b

\* isBuy = !isBuy
NextIsBuy(b) == ~b

\* a slip: the counter is never advanced
KeepNumID(n) == n

\* numID++
NextNumID(n) == n + 1

\* offerPrice - bidPrice <= 1.0/128.0, prices times 512
CrossesSpread(bidPrice, offerPrice) == offerPrice - bidPrice <= 4

\* a slip: the direction alternates on every update
NoExecutionToggles(w) == [w EXCEPT !.isBuy = ~@]

\* AlgoExecuteOrder when the spread compared is wider than 1/128: the if has
\* no else
NoExecution(w) == w

\* AlgoExecuteOrder; bidOffer is what the copy out of the reference returned
\* by GetBestBidOffer holds
AlgoExecuteOrder(w, orderBook, bidOffer) ==
  LET product == orderBook.product
      orderId == to_string(w.numID)
      bidPrice == bidOffer.bidOrder.price
      bidQuantity == bidOffer.bidOrder.quantity
      offerPrice == bidOffer.offerOrder.price
      offerQuantity == bidOffer.offerOrder.quantity
      algoExecution ==
        IF w.isBuy
        THEN ExecutionOrder(product, "BID", orderId, "MARKET", offerPrice,
                            offerQuantity, 0, "NA", FALSE)
        ELSE ExecutionOrder(product, "OFFER", orderId, "MARKET", bidPrice,
                            bidQuantity, 0, "NA", FALSE)
  IN  IF CrossesSpread(bidPrice, offerPrice)
      THEN LET w1 == AlgoExecutionOnMessage(w, algoExecution)
           IN  [w1 EXCEPT !.isBuy = NextIsBuy(@), !.numID = NextNumID(@)]
      ELSE NoExecution(w)

\* ------------------------------------------------- marketdataservice.hpp
Order(price, quantity, side) == [price |-> price, quantity |-> quantity, side |-> side]

\* the scan for the best bid: strictly greater replaces
RECURSIVE ScanBid(_, _)
ScanBid(stack, best) ==
  IF stack = <<>> THEN best
  ELSE ScanBid(Tail(stack), IF Head(stack).price > best.price THEN Head(stack) ELSE best)

\* the scan for the best offer: strictly less replaces
RECURSIVE ScanOffer(_, _)
ScanOffer(stack, best) ==
  IF stack = <<>> THEN best
  ELSE ScanOffer(Tail(stack), IF Head(stack).price < best.price THEN Head(stack) ELSE best)

\* the local BidOffer that OrderStacks::GetBestBidOffer builds
GetBestBidOffer(orderBook) ==
  [bidOrder |-> ScanBid(orderBook.bidStack, Order(0, 0, "BID")),
   offerOrder |-> ScanOffer(orderBook.offerStack, Order(1000 * 512, 0, "BID"))]

\* GetBestBidOffer returns a reference to that local, which is destroyed on
\* return: the caller's copy reads either the bytes still in place or
\* whatever has replaced them
GarbageBidOffers ==
  { [bidOrder |-> Order(0, 0, "BID"), offerOrder |-> Order(0, 0, "BID")],
    [bidOrder |-> Order(0, 0, "BID"), offerOrder |-> Order(1000 * 512, 0, "BID")] }

DanglingRead(local) == {local} \cup GarbageBidOffers

\* a slip: the order book is not stored
MarketDataOnMessageNoStore(w, data, bidOffer) ==
  LET w1 == AlgoExecuteOrder(w, data, bidOffer)
  IN  [w1 EXCEPT !.mdLog = Append(@, [book |-> data,
                                      emitted |-> Len(w1.executionsFile) - Len(w.executionsFile)])]

\* marketDataService::OnMessage; its one listener is algo execution
\* (MarketDataListener::ProcessAdd calls AlgoExecuteOrder)
MarketDataOnMessage(w, data, bidOffer) ==
  LET w1 == AlgoExecuteOrder([w EXCEPT !.orderBooks = Put(@, data.product.productId, data)],
                             data, bidOffer)
  IN  [w1 EXCEPT !.mdLog = Append(@, [book |-> data,
                                      emitted |-> Len(w1.executionsFile) - Len(w.executionsFile)])]

\* ------------------------------------------------------------ inputs
\* best bid 99-160 behind 99-157; best offer 99-162 (1/128 away) or 99-163
BookInputs ==
  { [product |-> GetProductType(c),
     bidStack |-> << Order(GetNormalPrice(<<"9", "9", "-", "1", "5", "7">>), 1, "BID"),
                     Order(GetNormalPrice(<<"9", "9", "-", "1", "6", "0">>), 2, "BID") >>,
     offerStack |-> << Order(GetNormalPrice(<<"9", "9", "-", "1", "6", "7">>), 1, "OFFER"),
                       Order(GetNormalPrice(o), 3, "OFFER") >>] :
    c \in Cusips,
    o \in { <<"9", "9", "-", "1", "6", "2">>, <<"9", "9", "-", "1", "6", "3">> } }

\* lines of trades.txt: productId, tradeId, price, book, quantity, side
TradeLineInputs ==
  { <<c, v[1], <<"9", "9", "-", "1", "6", "0">>, v[2], v[3], s>> :
    c \in Cusips,
    v \in { << <<"T1">>, "TRSY1", <<"1">> >>, << <<"T2">>, "TRSY2", <<"3">> >> },
    s \in {"BUY", "SELL"} }

\* an order book delivered to the market data service
MarketDataUpdate ==
  /\ tradeEvents < MaxTradeEvents
  /\ \E orderBook \in BookInputs :
       \E bidOffer \in DanglingRead(GetBestBidOffer(orderBook)) :
         SetWorld(MarketDataOnMessage(World, orderBook, bidOffer))
  /\ tradeEvents' = tradeEvents + 1

\* execution orders handed to the execution service directly
OrderInputs ==
  { ExecutionOrder(GetProductType(c), side, <<"A", "7">>, "LIMIT",
                   GetNormalPrice(<<"9", "9", "-", "1", "6", "0">>), 2, 5, "P1", TRUE) :
    c \in Cusips, side \in {"BID", "OFFER"} }

\* ExecutionService::ExecuteOrder
ExecuteOrder ==
  /\ tradeEvents < MaxTradeEvents
  /\ \E _executionOrder \in OrderInputs :
       SetWorld(ExecutionServiceOnMessage(World, _executionOrder))
  /\ tradeEvents' = tradeEvents + 1

\* one iteration of TradeBookingConnector::Subscribe's loop: one line of trades.txt
TradeBookingSubscribeLine ==
  /\ tradeEvents < MaxTradeEvents
  /\ \E tradeData \in TradeLineInputs :
       LET trade == [product |-> GetProductType(tradeData[1]),
                     tradeId |-> tradeData[2],
                     price |-> GetNormalPrice(tradeData[3]),
                     book |-> tradeData[4],
                     quantity |-> StoI(tradeData[5]),
                     side |-> tradeData[6]]
       IN  SetWorld(TradeBookingOnMessage([World EXCEPT !.booked = Append(@, trade)], trade))
  /\ tradeEvents' = tradeEvents + 1

InitTrade ==
  /\ orderBooks = EmptyMap
  /\ algoExecutions = EmptyMap /\ isBuy = TRUE /\ numID = 0
  /\ executionOrders = EmptyMap /\ historicalExecutions = EmptyMap /\ executionsFile = <<>>
  /\ trades = EmptyMap /\ num = 0
  /\ positions = EmptyMap /\ historicalPositions = EmptyMap /\ positionsFile = <<>>
  /\ pvs = EmptyMap /\ historicalRisks = EmptyMap /\ riskFile = <<>>
  /\ booked = <<>> /\ mdLog = <<>> /\ tradeEvents = 0
  /\ positionCalls = <<>> /\ written = <<>>

\* =================================================================
\* marketDataConnector::Subscribe: marketdata.txt, ten lines to a book
\* =================================================================
VARIABLES
  \* the lines of marketdata.txt and how many have been read
  mdFile, mdPos,
  \* the locals of Subscribe that live across lines
  num_line, bidStacks, offerStacks

mdVars == <<mdFile, mdPos, num_line, bidStacks, offerStacks>>

\* a slip: the book is cut one line early
IsSeparateUpdateNine(n) == n = 9

\* num_line == 10
IsSeparateUpdate(n) == n = 10

\* the stacks after the push_back of one parsed line
\* a slip: the bid is put in front of the stack
PushBidFront(stack, price, quantity, side) ==
  IF side = "BID" THEN <<Order(price, quantity, "BID")>> \o stack ELSE stack

PushBid(stack, price, quantity, side) ==
  IF side = "BID" THEN Append(stack, Order(price, quantity, "BID")) ELSE stack

PushOffer(stack, price, quantity, side) ==
  IF side # "BID" /\ side = "OFFER" THEN Append(stack, Order(price, quantity, "OFFER")) ELSE stack

\* one iteration of marketDataConnector::Subscribe's loop: one line of
\* marketdata.txt, CUSIP, price, quantity, side
MarketDataSubscribeLine ==
  /\ mdPos < Len(mdFile)
  /\ LET orderData == mdFile[mdPos + 1]
         CUSIP == orderData[1]
         price == GetNormalPrice(orderData[2])
         quantity == StoI(orderData[3])
         bids == PushBid(bidStacks, price, quantity, orderData[4])
         offers == PushOffer(offerStacks, price, quantity, orderData[4])
     IN  IF IsSeparateUpdate(num_line + 1)
         THEN LET orderBook == [product |-> GetProductType(CUSIP),
                                bidStack |-> bids, offerStack |-> offers]
              IN  /\ num_line' = 0
                  /\ bidStacks' = <<>>
                  /\ offerStacks' = <<>>
                  /\ \E bidOffer \in DanglingRead(GetBestBidOffer(orderBook)) :
                       SetWorld(MarketDataOnMessage(World, orderBook, bidOffer))
         ELSE /\ num_line' = num_line + 1
              /\ bidStacks' = bids
              /\ offerStacks' = offers
              /\ SetWorld(World)
  /\ mdPos' = mdPos + 1
  /\ UNCHANGED <<mdFile, tradeEvents>>

\* ------------------------------------------------------------ inputs
\* line i of a market data file: the identifier is c1 on lines 10, 30, ...
\* and c2 elsewhere, every k-th line is an OFFER, every seventh of the others
\* carries an unknown side token, the rest are BIDs
MdLineOf(i, c1, c2, k) ==
  << IF i % 20 = 10 THEN c1 ELSE c2,
     IF i % k = 0
     THEN <<"9", "9", "-", "1", "6", DigitChar(2 + (i % 3))>>
     ELSE <<"9", "9", "-", "1", "6", DigitChar(i % 2)>>,
     <<DigitChar(1 + (i % 3))>>,
     IF i % k = 0 THEN "OFFER" ELSE IF i % 7 = 0 THEN "X" ELSE "BID" >>

MdFiles ==
  { [i \in 1..MaxMdLines |-> MdLineOf(i, c1, c2, k)] :
    c1 \in Cusips, c2 \in Cusips, k \in {2, 3, 11} }

InitMdConnector == mdPos = 0 /\ num_line = 0 /\ bidStacks = <<>> /\ offerStacks = <<>>

\* =================================================================
\* inquiry service
\* =================================================================
VARIABLES
  \* InquiryService
  inquiries,
  \* HistoricalDataService<Inquiry>
  historicalInquiries, allinquiriesFile,
  \* history: number of QUOTED-to-DONE transitions taken so far
  transitions,
  \* history: the last call made on the inquiry service from outside, the
  \* inquiry it was given, the records its listeners were passed and the
  \* QUOTED-to-DONE transitions it took
  lastCall,
  inquiryEvents

inquiryVars == <<inquiries, historicalInquiries, allinquiriesFile, transitions,
                 lastCall, inquiryEvents>>

\* the inquiry service and what it reaches as one value; local is the Inquiry
\* object of the caller that OnMessage was handed by reference
InquiryWorld(local) ==
  [inquiries |-> inquiries, historicalInquiries |-> historicalInquiries,
   allinquiriesFile |-> allinquiriesFile, transitions |-> transitions, local |-> local]

\* an Inquiry& is either the caller's object or an element of the store
LocalRef == [store |-> FALSE, key |-> <<>>]

StoreRef(key) == [store |-> TRUE, key |-> key]

Deref(s, ref) == IF ref.store THEN s.inquiries[ref.key] ELSE s.local

\* a slip: through a reference into the store, every stored inquiry is set
SetStateOfAll(s, ref, state) ==
  IF ref.store
  THEN [s EXCEPT !.inquiries = [k \in DOMAIN @ |-> [@[k] EXCEPT !.state = state]]]
  ELSE [s EXCEPT !.local.state = state]

\* Inquiry::SetState through the reference
SetState(s, ref, state) ==
  IF ref.store
  THEN [s EXCEPT !.inquiries[ref.key].state = state]
  ELSE [s EXCEPT !.local.state = state]

\* a slip: the price is left as it was
SetPriceKeeps(s, ref, price) == s

\* Inquiry::SetPrice through the reference
SetPrice(s, ref, price) ==
  IF ref.store
  THEN [s EXCEPT !.inquiries[ref.key].price = price]
  ELSE [s EXCEPT !.local.price = price]

\* inquiries[_data.GetInquiryId()] = _data
StoreInquiry(s, ref) ==
  LET data == Deref(s, ref) IN [s EXCEPT !.inquiries = Put(@, data.inquiryId, data)]

\* HistoricalDataService<Inquiry>::OnMessage: store under the product
\* identifier, then append to allinquiries.txt
HistoricalInquiryOnMessage(s, data) ==
  [s EXCEPT !.historicalInquiries = Put(@, data.product.productId, data),
            !.allinquiriesFile = Append(@, data)]

\* a slip: the listeners are passed a copy taken on entry, before the publish
NotifyReceivedSnapshot(s, ref) ==
  HistoricalInquiryOnMessage(s, [Deref(s, ref) EXCEPT !.state = "RECEIVED"])

\* the for_each over the listeners: the one listener is the historical
\* inquiry service, and it is passed the object the reference names now
NotifyListeners(s, ref) == HistoricalInquiryOnMessage(s, Deref(s, ref))

\* a slip: the QUOTED pass fans out to the listeners too
OnQuotedNotifies(s, ref) ==
  NotifyListeners(StoreInquiry([SetState(s, ref, "DONE") EXCEPT !.transitions = @ + 1], ref), ref)

\* a slip: the inquiry is stored as it came, still QUOTED
OnQuotedKeepsQuoted(s, ref) ==
  StoreInquiry([s EXCEPT !.transitions = @ + 1], ref)

\* the body of  if (state == QUOTED)
OnQuoted(s, ref) ==
  StoreInquiry([SetState(s, ref, "DONE") EXCEPT !.transitions = @ + 1], ref)

RECURSIVE InquiryOnMessage(_, _)
RECURSIVE InquiryConnectorPublish(_, _)

\* a slip: every state but RECEIVED is handled as QUOTED
InquiryOnMessageQuotesOthers(s, ref) ==
  LET state == Deref(s, ref).state
      s1 == IF state = "RECEIVED"
            THEN NotifyListeners(InquiryConnectorPublish(StoreInquiry(s, ref), ref), ref)
            ELSE s
  IN  IF state # "RECEIVED" THEN OnQuoted(s1, ref) ELSE s1

\* InquiryService::OnMessage; state is read once, on entry
InquiryOnMessage(s, ref) ==
  LET state == Deref(s, ref).state
      s1 == IF state = "RECEIVED"
            THEN NotifyListeners(InquiryConnectorPublish(StoreInquiry(s, ref), ref), ref)
            ELSE s
  IN  IF state = "QUOTED" THEN OnQuoted(s1, ref) ELSE s1

\* a slip: the quoted inquiry is not sent back to the service
InquiryConnectorPublishKeeps(s, ref) == SetState(s, ref, "QUOTED")

\* InquiryConnector::Publish
InquiryConnectorPublish(s, ref) == InquiryOnMessage(SetState(s, ref, "QUOTED"), ref)

\* the Inquiry that unordered_map::operator[] inserts for a missing key:
\* value-initialised, so the enums and numbers are zero
DefaultInquiry ==
  [inquiryId |-> <<>>, product |-> [productId |-> "", ticker |-> ""],
   side |-> "BUY", quantity |-> 0, price |-> 0, state |-> "RECEIVED"]

\* inquiries[_inquiryId] as an lvalue
Touch(s, key) ==
  IF key \in DOMAIN s.inquiries THEN s
  ELSE [s EXCEPT !.inquiries = Put(@, key, DefaultInquiry)]

SetInquiryWorld(s, call) ==
  \E v \in {s} :
    /\ inquiries' = v.inquiries
    /\ historicalInquiries' = v.historicalInquiries
    /\ allinquiriesFile' = v.allinquiriesFile
    /\ transitions' = v.transitions
    /\ lastCall' = [call EXCEPT
                      !.notified = SubSeq(v.allinquiriesFile, Len(allinquiriesFile) + 1,
                                          Len(v.allinquiriesFile)),
                      !.transitions = v.transitions - transitions,
                      !.stored = v.inquiries # inquiries]
    /\ inquiryEvents' = inquiryEvents + 1

Call(op, data) ==
  [op |-> op, data |-> data, notified |-> <<>>, transitions |-> 0, stored |-> FALSE]

\* ------------------------------------------------------------ inputs
InquiryIds == { <<"INQ1">>, <<"INQ2">> }

InquiryStates == {"RECEIVED", "QUOTED", "DONE", "REJECTED", "CUSTOMER_REJECTED"}

\* lines of inquiries.txt: inquiryId, productId, side, quantity, price, state
InquiryLineInputs ==
  { <<id, c, "BUY", <<"1">>, <<"9", "9", "-", "1", "6", "0">>, st>> :
    id \in InquiryIds, c \in Cusips, st \in InquiryStates }

\* one iteration of InquiryConnector::Subscribe's loop: one line of inquiries.txt
InquirySubscribeLine ==
  /\ inquiryEvents < MaxInquiryEvents
  /\ \E inquiryData \in InquiryLineInputs :
       LET inquiry == [inquiryId |-> inquiryData[1],
                       product |-> GetProductType(inquiryData[2]),
                       side |-> inquiryData[3],
                       quantity |-> StoI(inquiryData[4]),
                       price |-> GetNormalPrice(inquiryData[5]),
                       state |-> inquiryData[6]]
       IN  SetInquiryWorld(InquiryOnMessage(InquiryWorld(inquiry), LocalRef),
                           Call("OnMessage", inquiry))

\* InquiryService::SendQuote
SendQuote ==
  /\ inquiryEvents < MaxInquiryEvents
  /\ \E _inquiryId \in InquiryIds, _price \in {GetNormalPrice(<<"1", "0", "0", "-", "0", "0", "0">>)} :
       LET s == Touch(InquiryWorld(DefaultInquiry), _inquiryId)
           inquiry == StoreRef(_inquiryId)
       IN  SetInquiryWorld(
             IF Deref(s, inquiry).state = "RECEIVED"
             THEN InquiryOnMessage(SetPrice(s, inquiry, _price), inquiry)
             ELSE s,
             Call("SendQuote", [inquiryId |-> _inquiryId, price |-> _price]))

\* InquiryService::RejectInquiry
RejectInquiry ==
  /\ inquiryEvents < MaxInquiryEvents
  /\ \E _inquiryId \in InquiryIds :
       SetInquiryWorld(SetState(Touch(InquiryWorld(DefaultInquiry), _inquiryId),
                                StoreRef(_inquiryId), "REJECTED"),
                       Call("RejectInquiry", [inquiryId |-> _inquiryId]))

InitInquiry ==
  /\ inquiries = EmptyMap /\ historicalInquiries = EmptyMap /\ allinquiriesFile = <<>>
  /\ transitions = 0 /\ inquiryEvents = 0
  /\ lastCall = Call("none", DefaultInquiry)

\* =================================================================
\* =================================================================
\* RiskService::GetBucketedRisk, asked for the risk of a sector
\* =================================================================
VARIABLES
  \* the products of the sector last asked for, and the record its caller read
  bucketSector, bucketedRisk

bucketVars == <<bucketSector, bucketedRisk>>

\* PV01() = default, value-initialised by unordered_map::operator[]
DefaultPV01 == [product |-> [productId |-> "", ticker |-> ""], pv01 |-> 0, quantity |-> 0]

\* pvs after pvs[pId] has been evaluated for every product of the sector
RECURSIVE TouchPvs(_, _)
TouchPvs(m, products) ==
  IF products = <<>> THEN m
  ELSE LET pId == Head(products).productId
       IN  TouchPvs(IF pId \in DOMAIN m THEN m ELSE Put(m, pId, DefaultPV01), Tail(products))

\* the loop: pv01 += pvs[pId].GetPV01() * pvs[pId].GetQuantity()
RECURSIVE SumRisk(_, _)
SumRisk(m, products) ==
  IF products = <<>> THEN 0
  ELSE LET pId == Head(products).productId
       IN  m[pId].pv01 * m[pId].quantity + SumRisk(m, Tail(products))

\* the temporary PV01<BucketedSector<T>> that GetBucketedRisk builds
GetBucketedRisk(m, products) ==
  [product |-> products, pv01 |-> SumRisk(TouchPvs(m, products), products), quantity |-> 1]

\* what the storage of the destroyed temporary can hold when the caller reads
\* through the returned reference: the temporary's value, or other bytes
DanglingRiskRead(local) ==
  {local, [product |-> <<>>, pv01 |-> 0, quantity |-> 0]}

SectorInputs ==
  { <<GetProductType("91282CFX4")>>, <<GetProductType("91282CFY2")>>,
    <<GetProductType("91282CFX4"), GetProductType("91282CFY2")>> }

\* one call of GetBucketedRisk and the caller's read of what it returns
GetBucketedRiskCall ==
  \E products \in SectorInputs :
    \E read \in DanglingRiskRead(GetBucketedRisk(pvs, products)) :
      /\ bucketSector' = products
      /\ bucketedRisk' = read
      /\ SetWorld([World EXCEPT !.pvs = TouchPvs(@, products)])
      /\ UNCHANGED tradeEvents

InitBucket == bucketSector = <<>> /\ bucketedRisk = [product |-> <<>>, pv01 |-> 0, quantity |-> 0]

\* =================================================================
\* queries of the market data service
\* =================================================================
VARIABLES
  \* history: the last query made of the market data service: its name, the
  \* identifier asked for, the book stored under it before and after the
  \* call, and what the caller read through the reference it was returned
  bookQuery

bookVars == <<bookQuery>>

\* OrderStacks() = default, value-initialised by unordered_map::operator[]
DefaultOrderStacks ==
  [product |-> [productId |-> "", ticker |-> ""], bidStack |-> <<>>, offerStack |-> <<>>]

NoBidOffer == [bidOrder |-> Order(0, 0, "BID"), offerOrder |-> Order(0, 0, "BID")]

\* orderBooks after orderBooks[productId] has been evaluated
TouchBook(m, productId) ==
  IF productId \in DOMAIN m THEN m ELSE Put(m, productId, DefaultOrderStacks)

\* marketDataService::GetBestBidOffer and the caller's read of what it returns
GetBestBidOfferCall ==
  \E productId \in Cusips :
    LET books == TouchBook(orderBooks, productId) IN
    \E read \in DanglingRead(GetBestBidOffer(books[productId])) :
      /\ bookQuery' = [op |-> "GetBestBidOffer", productId |-> productId,
                       before |-> books[productId], after |-> books[productId],
                       bidOffer |-> read, stacks |-> DefaultOrderStacks]
      /\ SetWorld([World EXCEPT !.orderBooks = books])
      /\ UNCHANGED tradeEvents

\* tmpBidTable[o->GetPrice()] += o->GetQuantity() over a stack, read at price
RECURSIVE QuantityAt(_, _)
QuantityAt(stack, price) ==
  IF stack = <<>> THEN 0
  ELSE (IF Head(stack).price = price THEN Head(stack).quantity ELSE 0)
         + QuantityAt(Tail(stack), price)

\* the stacks that can be built from the table of a stack: one order per key,
\* in the order the unordered_map iterates, which is unspecified
AggregatedStacks(stack, side) ==
  LET keys == { stack[i].price : i \in 1..Len(stack) }
      n == Cardinality(keys)
  IN  { [i \in 1..n |-> Order(f[i], QuantityAt(stack, f[i]), side)] :
        f \in { g \in [1..n -> keys] : \A i, j \in 1..n : g[i] = g[j] => i = j } }

\* AggregateMarketData returns a reference to its local newOrderStack, which
\* is destroyed on return: the caller reads either the value still in place
\* or whatever has replaced it
DanglingStacksRead(local) == {local, DefaultOrderStacks}

\* marketDataService::AggregateMarketData and the caller's read of what it
\* returns
AggregateMarketDataCall ==
  \E productId \in Cusips :
    LET books == TouchBook(orderBooks, productId)
        book == books[productId]
    IN  \E newbidStack \in AggregatedStacks(book.bidStack, "BID") :
          \E newofferStack \in AggregatedStacks(book.offerStack, "OFFER") :
            \E read \in DanglingStacksRead([product |-> book.product,
                                            bidStack |-> newbidStack,
                                            offerStack |-> newofferStack]) :
              /\ bookQuery' = [op |-> "AggregateMarketData", productId |-> productId,
                               before |-> book, after |-> books[productId],
                               bidOffer |-> NoBidOffer, stacks |-> read]
              /\ SetWorld([World EXCEPT !.orderBooks = books])
              /\ UNCHANGED tradeEvents

InitBook ==
  bookQuery = [op |-> "none", productId |-> "", before |-> DefaultOrderStacks,
               after |-> DefaultOrderStacks, bidOffer |-> NoBidOffer,
               stacks |-> DefaultOrderStacks]

\* =================================================================
\* the fractional price codec of soa.hpp, applied to one string
\* =================================================================
VARIABLES
  \* the string parsed, the value parsed from it (times 512), the string
  \* formatted from that value, and how far the round trip has got
  quoteIn, quoteNormal, quoteOut, quoteStep

codecVars == <<quoteIn, quoteNormal, quoteOut, quoteStep>>

\* a slip: the 32nds are not padded to two digits
GetQuotePriceNoPad(price) ==
  LET fp == price \div 512
      tp0 == (price % 512) \div 2
      sp == tp0 \div 8
      tp == tp0 % 8
      tmp_tp == IF tp = 4 THEN <<"+">> ELSE to_string(tp)
  IN  to_string(fp) \o <<"-">> \o to_string(sp) \o tmp_tp

\* price*512 to fractional price xxx-yyz
GetQuotePrice(price) ==
  LET fp == price \div 512
      tp0 == (price % 512) \div 2
      sp == tp0 \div 8
      tp == tp0 % 8
      tmp_sp == IF sp < 10 THEN <<"0">> \o to_string(sp) ELSE to_string(sp)
      tmp_tp == IF tp = 4 THEN <<"+">> ELSE to_string(tp)
  IN  to_string(fp) \o <<"-">> \o tmp_sp \o tmp_tp

\* integer parts: 0, 7, 99, 100 and 099
WholeInputs == { <<"0">>, <<"7">>, <<"9", "9">>, <<"1", "0", "0">>, <<"0", "9", "9">> }
\* 32nds, two digits 00..31
ThirtySecondInputs == { <<DigitChar(a), DigitChar(b)>> : a \in 0..3, b \in 0..9 } \ { <<"3", DigitChar(b)>> : b \in 2..9 }
\* 256ths, a digit 0..7 or +
EighthInputs == { <<DigitChar(d)>> : d \in 0..7 } \cup { <<"+">> }
QuoteInputs == { w \o <<"-">> \o y \o z : w \in WholeInputs, y \in ThirtySecondInputs, z \in EighthInputs }

ParseQuote ==
  /\ quoteStep = "read"
  /\ quoteNormal' = GetNormalPrice(quoteIn)
  /\ quoteStep' = "parsed"
  /\ UNCHANGED <<quoteIn, quoteOut>>

FormatQuote ==
  /\ quoteStep = "parsed"
  /\ quoteOut' = GetQuotePrice(quoteNormal)
  /\ quoteStep' = "formatted"
  /\ UNCHANGED <<quoteIn, quoteNormal>>

\* nothing to convert
InitCodecIdle == quoteIn = <<>> /\ quoteNormal = 0 /\ quoteOut = <<>> /\ quoteStep = "idle"

\* one string to convert
InitCodec == quoteIn \in QuoteInputs /\ quoteNormal = 0 /\ quoteOut = <<>> /\ quoteStep = "read"

\* =================================================================
\* the pipelines side by side: they share no state, so each is followed
\* from the state in which the others have read nothing
\* =================================================================
VARIABLES
  \* the input the run feeds: "prices", "trades" (with the order books
  \* delivered to the market data service) or "inquiries"; "none" when one
  \* pipeline is studied alone
  feed

InitFeed == feed = "none"

vars == <<priceVars, tradeVars, mdVars, inquiryVars, codecVars, bucketVars, bookVars, feed>>

\* the services as constructed and wired by main.cpp, nothing read yet
Init == InitPrice /\ InitTrade /\ InitMdConnector /\ InitInquiry /\ mdFile = <<>> /\ InitCodecIdle /\ InitBucket /\ InitBook /\ InitFeed

\* the same, with a price string to convert
InitQuote == InitPrice /\ InitTrade /\ InitMdConnector /\ InitInquiry /\ mdFile = <<>> /\ InitCodec /\ InitBucket /\ InitBook /\ InitFeed

\* the same, with a market data file to read
InitMd == InitPrice /\ InitTrade /\ InitMdConnector /\ InitInquiry /\ mdFile \in MdFiles /\ InitCodecIdle /\ InitBucket /\ InitBook /\ InitFeed

NextPrice == PricingSubscribeLine /\ UNCHANGED <<tradeVars, mdVars, inquiryVars, codecVars, bucketVars, bookVars, feed>>

NextTrade ==
  \/ MarketDataUpdate /\ UNCHANGED <<priceVars, mdVars, inquiryVars, codecVars, bucketVars, bookVars, feed>>
  \/ TradeBookingSubscribeLine /\ UNCHANGED <<priceVars, mdVars, inquiryVars, codecVars, bucketVars, bookVars, feed>>

NextMd == MarketDataSubscribeLine /\ UNCHANGED <<priceVars, inquiryVars, codecVars, bucketVars, bookVars, feed>>

NextInquiry ==
  \/ InquirySubscribeLine /\ UNCHANGED <<priceVars, tradeVars, mdVars, codecVars, bucketVars, bookVars, feed>>
  \/ SendQuote /\ UNCHANGED <<priceVars, tradeVars, mdVars, codecVars, bucketVars, bookVars, feed>>
  \/ RejectInquiry /\ UNCHANGED <<priceVars, tradeVars, mdVars, codecVars, bucketVars, bookVars, feed>>

NextQuote ==
  \/ ParseQuote /\ UNCHANGED <<priceVars, tradeVars, mdVars, inquiryVars, bucketVars, bookVars, feed>>
  \/ FormatQuote /\ UNCHANGED <<priceVars, tradeVars, mdVars, inquiryVars, bucketVars, bookVars, feed>>

NextRisk ==
  \/ TradeBookingSubscribeLine /\ UNCHANGED <<priceVars, mdVars, inquiryVars, codecVars, bucketVars, bookVars, feed>>
  \/ GetBucketedRiskCall /\ UNCHANGED <<priceVars, mdVars, inquiryVars, codecVars, bookVars, feed>>

\* the same, one of the three pipelines fed
InitPipelines ==
  /\ InitPrice /\ InitTrade /\ InitMdConnector /\ InitInquiry /\ mdFile = <<>>
  /\ InitCodecIdle /\ InitBucket /\ InitBook
  /\ feed \in {"prices", "trades", "inquiries"}

NextPipelines ==
  \/ feed = "prices" /\ PricingSubscribeLine /\ UNCHANGED <<tradeVars, mdVars, inquiryVars, codecVars, bucketVars, bookVars, feed>>
  \/ feed = "trades" /\ MarketDataUpdate /\ UNCHANGED <<priceVars, mdVars, inquiryVars, codecVars, bucketVars, bookVars, feed>>
  \/ feed = "trades" /\ TradeBookingSubscribeLine /\ UNCHANGED <<priceVars, mdVars, inquiryVars, codecVars, bucketVars, bookVars, feed>>
  \/ feed = "inquiries" /\ InquirySubscribeLine /\ UNCHANGED <<priceVars, tradeVars, mdVars, codecVars, bucketVars, bookVars, feed>>
  \/ feed = "inquiries" /\ SendQuote /\ UNCHANGED <<priceVars, tradeVars, mdVars, codecVars, bucketVars, bookVars, feed>>
  \/ feed = "inquiries" /\ RejectInquiry /\ UNCHANGED <<priceVars, tradeVars, mdVars, codecVars, bucketVars, bookVars, feed>>

\* the driver: marketdata.txt is in the working directory with the other
\* three input files
InitMain ==
  /\ InitPrice /\ InitTrade /\ InitMdConnector /\ InitInquiry
  /\ mdFile \in { f \in MdFiles : f[1][1] = "91282CFX4" /\ f[10][1] = "91282CFY2" }
  /\ InitCodecIdle /\ InitBucket /\ InitBook
  /\ feed \in {"prices", "trades", "inquiries"}

\* the Subscribe calls main makes: prices.txt, trades.txt and inquiries.txt
NextMain ==
  \/ feed = "prices" /\ PricingSubscribeLine /\ UNCHANGED <<tradeVars, mdVars, inquiryVars, codecVars, bucketVars, bookVars, feed>>
  \/ feed = "trades" /\ TradeBookingSubscribeLine /\ UNCHANGED <<priceVars, mdVars, inquiryVars, codecVars, bucketVars, bookVars, feed>>
  \/ feed = "inquiries" /\ InquirySubscribeLine /\ UNCHANGED <<priceVars, tradeVars, mdVars, codecVars, bucketVars, bookVars, feed>>

NextExecution ==
  \/ MarketDataUpdate /\ UNCHANGED <<priceVars, mdVars, inquiryVars, codecVars, bucketVars, bookVars, feed>>
  \/ ExecuteOrder /\ UNCHANGED <<priceVars, mdVars, inquiryVars, codecVars, bucketVars, bookVars, feed>>

\* marketdata.txt read line by line, and queries of the stored books
NextBook ==
  \/ MarketDataSubscribeLine /\ UNCHANGED <<priceVars, inquiryVars, codecVars, bucketVars, bookVars, feed>>
  \/ GetBestBidOfferCall /\ UNCHANGED <<priceVars, mdVars, inquiryVars, codecVars, bucketVars, feed>>
  \/ AggregateMarketDataCall /\ UNCHANGED <<priceVars, mdVars, inquiryVars, codecVars, bucketVars, feed>>

Next == NextPrice \/ NextTrade \/ NextMd \/ NextInquiry \/ NextQuote \/ NextRisk \/ NextExecution \/ NextBook

\* prices.txt through pricing, algo streaming, streaming and the GUI throttle
SpecPrice == Init /\ [][NextPrice]_vars

\* trades.txt and order books through execution, booking, position and risk
SpecTrade == Init /\ [][NextTrade]_vars

\* marketdata.txt read line by line
SpecMd == InitMd /\ [][NextMd]_vars

\* the inquiry service
SpecInquiry == Init /\ [][NextInquiry]_vars

\* one fractional price parsed and formatted back
SpecQuote == InitQuote /\ [][NextQuote]_vars

\* trades.txt through booking, position and risk, and queries of bucketed risk
SpecRisk == Init /\ [][NextRisk]_vars

\* marketdata.txt read line by line, and queries of the stored books
SpecBook == InitMd /\ [][NextBook]_vars

\* every service of the three pipelines, one pipeline per run
SpecPipelines == InitPipelines /\ [][NextPipelines]_vars

\* the driver as main.cpp runs it
SpecMain == InitMain /\ [][NextMain]_vars

\* execution orders from algo execution and from callers of ExecuteOrder
SpecExecution == Init /\ [][NextExecution]_vars

Spec == Init /\ [][Next]_vars

\* =================================================================
\* properties
\* =================================================================
AggregateOf(c) == IF c \in DOMAIN positions THEN GetAggregatePosition(positions[c]) ELSE 0

RECURSIVE SignedSum(_, _)
SignedSum(ts, c) ==
  IF ts = <<>> THEN 0
  ELSE (IF Head(ts).product.productId # c THEN 0
        ELSE IF Head(ts).side = "SELL" THEN 0 - Head(ts).quantity
        ELSE Head(ts).quantity) + SignedSum(Tail(ts), c)

\* C1: for every instrument the sum over the books of the position service's
\* positions equals the sum of the signed quantities of the booked trades
\* (file trades and execution-derived trades), each trade counted once
C1_PositionsMatchBookedTrades ==
  \A c \in Cusips : AggregateOf(c) = SignedSum(booked, c)

RECURSIVE MaxPrice(_)
MaxPrice(stack) ==
  IF Len(stack) = 1 THEN stack[1].price
  ELSE LET m == MaxPrice(Tail(stack)) IN IF stack[1].price >= m THEN stack[1].price ELSE m

RECURSIVE MinPrice(_)
MinPrice(stack) ==
  IF Len(stack) = 1 THEN stack[1].price
  ELSE LET m == MinPrice(Tail(stack)) IN IF stack[1].price <= m THEN stack[1].price ELSE m

\* C2: for every order book delivered to algo execution, an execution order
\* is emitted if and only if lowest offer price - highest bid price <= 1/128
C2_EmitIffSpreadAtMost128th ==
  \A i \in 1..Len(mdLog) :
    LET book == mdLog[i].book
    IN  (book.bidStack # <<>> /\ book.offerStack # <<>>) =>
          /\ mdLog[i].emitted \in {0, 1}
          /\ mdLog[i].emitted = 1 <=>
               (MinPrice(book.offerStack) - MaxPrice(book.bidStack)) * 128 <= 512

\* C3: the execution orders emitted by algo execution, all instruments
\* together, start with side BID and alternate; an update that emits nothing
\* does not advance the alternation
C3_SidesAlternateFromBid ==
  \A i \in 1..Len(executionsFile) :
    executionsFile[i].side = IF i % 2 = 1 THEN "BID" ELSE "OFFER"

C3_Witness ==
  /\ Len(mdLog) = 3 /\ Len(executionsFile) = 2
  /\ mdLog[2].emitted = 0
  /\ executionsFile[1].product # executionsFile[2].product

ReceivedDelivered == lastCall.op = "OnMessage" /\ lastCall.data.state = "RECEIVED"

\* C4: an inquiry delivered in state RECEIVED ends stored in state DONE, the
\* QUOTED-to-DONE transition is taken exactly once and the listeners are
\* notified exactly once for it
C4_ReceivedReachesDoneOnce ==
  ReceivedDelivered =>
    /\ lastCall.data.inquiryId \in DOMAIN inquiries
    /\ inquiries[lastCall.data.inquiryId].state = "DONE"
    /\ lastCall.transitions = 1
    /\ Len(lastCall.notified) = 1

C4_Witness ==
  /\ ReceivedDelivered
  /\ inquiryEvents = 3
  /\ Len(allinquiriesFile) = 2
  /\ inquiries[lastCall.data.inquiryId].state = "DONE"

IsExecutionDerived(t) == Head(t.tradeId) = "TRADE-EXECUTE-"

\* C6: the k-th execution-derived trade (k = 0, 1, 2, ...) is booked to
\* TRSY1, TRSY2 or TRSY3 according to k mod 3
C6_BooksRotate ==
  LET derived == SelectSeq(booked, IsExecutionDerived)
  IN  \A i \in 1..Len(derived) :
        derived[i].book = (CASE (i - 1) % 3 = 0 -> "TRSY1"
                             [] (i - 1) % 3 = 1 -> "TRSY2"
                             [] (i - 1) % 3 = 2 -> "TRSY3")

\* C7: the stream emitted for a price is for the same instrument and has
\* bid price = mid - spread/2 and offer price = mid + spread/2
C7_BidOfferAroundMid ==
  /\ DOMAIN algoStreams = DOMAIN prices
  /\ \A c \in DOMAIN algoStreams :
       /\ algoStreams[c].product = prices[c].product
       /\ algoStreams[c].product.productId = c
       /\ 2 * algoStreams[c].bidOrder.price = 2 * prices[c].mid - prices[c].bidOfferSpread
       /\ 2 * algoStreams[c].offerOrder.price = 2 * prices[c].mid + prices[c].bidOfferSpread

C7_Witness ==
  /\ DOMAIN algoStreams = Cusips
  /\ \A c \in Cusips : prices[c].bidOfferSpread > 0
  /\ \E c \in Cusips : algoStreams[c].bidOrder.price = 100 * 512 + 7
  /\ \E c \in Cusips : algoStreams[c].offerOrder.price = 99 * 512 + 16 * 16 + 1

\* C8: the k-th stream emitted has visible quantity 10,000,000 for odd k and
\* 20,000,000 for even k, whatever the instrument; its bid and offer orders
\* carry the same visible quantity, and hidden quantity = 2 x visible
C8_VisibleSizeAlternates ==
  \A k \in 1..Len(streamingFile) :
    LET ps == streamingFile[k]
    IN  /\ ps.bidOrder.visibleQuantity = IF k % 2 = 1 THEN 10000000 ELSE 20000000
        /\ ps.offerOrder.visibleQuantity = ps.bidOrder.visibleQuantity
        /\ ps.bidOrder.hiddenQuantity = 2 * ps.bidOrder.visibleQuantity
        /\ ps.offerOrder.hiddenQuantity = 2 * ps.offerOrder.visibleQuantity

C8_Witness ==
  /\ Len(streamingFile) = 3
  /\ streamingFile[1].product # streamingFile[2].product
  /\ streamingFile[2].bidOrder.visibleQuantity = 20000000
  /\ streamingFile[3].bidOrder.hiddenQuantity = 20000000

WellFormedStream(ps) ==
  /\ ps.bidOrder.side = "BID"
  /\ ps.offerOrder.side = "OFFER"
  /\ ps.bidOrder.price <= ps.offerOrder.price

\* C9: every PriceStream emitted by algo streaming and stored, re-emitted or
\* persisted by the streaming service has bidOrder.side = BID,
\* offerOrder.side = OFFER and bidOrder.price <= offerOrder.price
C9_StreamsWellFormed ==
  /\ \A c \in DOMAIN algoStreams : WellFormedStream(algoStreams[c])
  /\ \A c \in DOMAIN priceStreams : WellFormedStream(priceStreams[c])
  /\ \A c \in DOMAIN historicalStreams : WellFormedStream(historicalStreams[c])
  /\ \A k \in 1..Len(streamingFile) : WellFormedStream(streamingFile[k])

C9_Witness ==
  /\ Len(streamingFile) = 3
  /\ \E c \in DOMAIN priceStreams :
       priceStreams[c].bidOrder.price < priceStreams[c].offerOrder.price
  /\ \E c \in DOMAIN priceStreams :
       priceStreams[c].bidOrder.price = priceStreams[c].offerOrder.price

\* C10: after N lines of market data exactly floor(N/10) order books have
\* been emitted, so the k-th is emitted when line 10k is read and a trailing
\* group of fewer than 10 lines is not emitted
C10_OneBookPerTenLines ==
  /\ Len(mdLog) = mdPos \div 10
  /\ num_line = mdPos % 10

C10_Witness ==
  /\ mdPos = Len(mdFile) /\ mdPos > 20
  /\ Len(mdLog) = 2
  /\ mdPos % 10 # 0
  /\ num_line = 1

\* C11: any two consecutive records of gui.txt carry timestamps that differ
\* by at least 300 ms, whatever the arrival times of the prices
C11_GuiRecordsThrottled ==
  \A k \in 1..(Len(guiFile) - 1) : guiFile[k + 1].time - guiFile[k].time >= 300

C11_Witness ==
  /\ Len(guiFile) = 2
  /\ Len(arrivals) = 3
  /\ arrivals[2] - arrivals[1] < 300

\* every pair of consecutive price updates arrived less than 300 ms apart
DenseArrivals ==
  \A k \in 1..(Len(arrivals) - 1) : arrivals[k + 1] - arrivals[k] < 300

\* C12: with at least two price updates, each less than 300 ms after the one
\* before, gui.txt holds strictly fewer records than prices were received
C12_DenseInputEmitsFewer ==
  (Len(arrivals) >= 2 /\ DenseArrivals) => Len(guiFile) < Len(arrivals)

C12_Witness ==
  /\ Len(arrivals) = 3
  /\ DenseArrivals
  /\ Len(guiFile) = 1
  /\ guiFile[1].time = arrivals[2]

\* C13: for every well-formed fractional price string s = xxx-yyz (yy two
\* digits 00..31, z a digit 0..7 or +), formatting the parsed value gives
\* back s
C13_QuoteRoundTrip ==
  quoteStep = "formatted" => quoteOut = quoteIn

\* the integer part is written without leading zeros and the 256ths digit
\* is not the character 4
CanonicalQuote(s) ==
  LET pos_dot == Find(s, "-")
  IN  /\ (pos_dot > 2 => s[1] # "0")
      /\ s[Len(s)] # "4"

\* C13, as the code has it: the round trip gives back s when s is written
\* the way the formatter writes (no leading zeros, + and never 4 for 4/256);
\* a string with the digit 4 comes back with + in its place
C13_CanonicalQuoteRoundTrip ==
  quoteStep = "formatted" =>
    /\ CanonicalQuote(quoteIn) => quoteOut = quoteIn
    /\ quoteIn[Len(quoteIn)] = "4" =>
         quoteOut[Len(quoteOut)] = "+" /\ GetNormalPrice(quoteOut) = quoteNormal

C13_Witness ==
  /\ quoteStep = "formatted"
  /\ quoteIn = <<"1", "0", "0", "-", "0", "7", "+">>
  /\ quoteOut = quoteIn
  /\ quoteNormal = 100 * 512 + 7 * 16 + 8

\* C14: after each trade has gone through the pipeline, the risk service's
\* stored PV01 record of the trade's instrument has pv01 equal to the static
\* table value and quantity equal to the sum over books of the position
\* service's position in that instrument
C14_RiskFollowsAggregatePosition ==
  /\ DOMAIN pvs = DOMAIN positions
  /\ \A c \in DOMAIN positions :
       /\ pvs[c].product.productId = c
       /\ pvs[c].pv01 = GetPV01(c)
       /\ pvs[c].quantity = AggregateOf(c)

C14_Witness ==
  \E c \in DOMAIN pvs :
    /\ DOMAIN positions[c].positions = {"TRSY1", "TRSY2"}
    /\ positions[c].positions["TRSY1"] = 0 - 1
    /\ positions[c].positions["TRSY2"] = 3
    /\ pvs[c].quantity = 2
    /\ pvs[c].pv01 = 617

\* the sum over the instruments of a sector of stored pv01 x stored quantity
RECURSIVE StoredSectorRisk(_)
StoredSectorRisk(products) ==
  IF products = <<>> THEN 0
  ELSE LET c == Head(products).productId
       IN  (IF c \in DOMAIN pvs THEN pvs[c].pv01 * pvs[c].quantity ELSE 0)
             + StoredSectorRisk(Tail(products))

\* C15: the record GetBucketedRisk(sector) returns has pv01 equal to the sum
\* over the sector's instruments of stored pv01 x stored quantity and quantity
\* 1; instruments outside the sector do not contribute
C15_BucketedRiskIsSectorSum ==
  [][bucketVars' # bucketVars =>
       /\ bucketedRisk'.pv01 = StoredSectorRisk(bucketSector')
       /\ bucketedRisk'.quantity = 1]_vars

\* the position held for instrument c in book b in the store m, 0 when absent
PositionIn(m, c, b) ==
  IF c \in DOMAIN m /\ b \in DOMAIN m[c].positions THEN m[c].positions[b] ELSE 0

Books == {"TRSY1", "TRSY2", "TRSY3"}

\* C16: one trade processed by the position service changes only
\* positions[book] of the trade's instrument, by +quantity for BUY and
\* -quantity for SELL (from 0 when the instrument or the book is absent);
\* every other book and instrument is unchanged, and the updated Position is
\* given to each listener of the position service exactly once
C16_AddTradeFrame ==
  \A k \in 1..Len(positionCalls) :
    LET call == positionCalls[k]
        c == call.trade.product.productId
        signed == IF call.trade.side = "BUY" THEN call.trade.quantity
                  ELSE 0 - call.trade.quantity
    IN  /\ PositionIn(call.after, c, call.trade.book)
             = PositionIn(call.before, c, call.trade.book) + signed
        /\ \A c2 \in Cusips, b2 \in Books :
             <<c2, b2>> # <<c, call.trade.book>> =>
               PositionIn(call.after, c2, b2) = PositionIn(call.before, c2, b2)
        /\ DOMAIN call.after = DOMAIN call.before \cup {c}
        /\ \A c2 \in DOMAIN call.before : c2 # c => call.after[c2] = call.before[c2]
        /\ call.toHistorical = <<call.after[c]>>
        /\ Len(call.toRisk) = 1
        /\ call.toRisk[1].product.productId = c
        /\ call.toRisk[1].quantity = GetAggregatePosition(call.after[c])

C16_Witness ==
  /\ Len(positionCalls) = 3
  /\ positionCalls[1].trade.side = "BUY" /\ positionCalls[1].before = EmptyMap
  /\ positionCalls[2].trade.side = "SELL"
  /\ positionCalls[2].trade.product = positionCalls[1].trade.product
  /\ positionCalls[2].trade.book # positionCalls[1].trade.book
  /\ positionCalls[3].trade.product # positionCalls[1].trade.product
  /\ positionCalls[3].after # positionCalls[3].before

\* the entries of a sequence of records that are about instrument c
AboutProduct(seq, c) == SelectSeq(seq, LAMBDA r : r.product.productId = c)

\* a store keyed by product identifier holds, for each instrument, the last
\* record of the sequence about it, and nothing else
HoldsLatest(store, seq) ==
  /\ DOMAIN store = { seq[i].product.productId : i \in 1..Len(seq) }
  /\ \A c \in DOMAIN store :
       LET about == AboutProduct(seq, c) IN store[c] = about[Len(about)]

\* pricing, algo streaming, streaming and GUI: every price is stored and
\* handed once to algo streaming (whose stream is stored and handed once to
\* streaming and from there once to the historical service) and once to the GUI
PricePipelineUpserts ==
  /\ \A c \in DOMAIN prices : prices[c].product.productId = c
  /\ DOMAIN prices = DOMAIN algoStreams
  /\ \A c \in DOMAIN prices :
       /\ algoStreams[c].product = prices[c].product
       /\ algoStreams[c].bidOrder.price = BidPrice(prices[c])
       /\ algoStreams[c].offerOrder.price = OfferPrice(prices[c])
  /\ HoldsLatest(algoStreams, streamingFile)
  /\ HoldsLatest(priceStreams, streamingFile)
  /\ HoldsLatest(historicalStreams, streamingFile)
  /\ Len(streamingFile) = priceLines
  /\ Len(arrivals) = priceLines
  /\ HoldsLatest(guis, [i \in 1..Len(guiFile) |-> guiFile[i].price])

\* market data, algo execution, execution, trade booking, risk and the
\* historical services behind them
TradePipelineUpserts ==
  /\ HoldsLatest(orderBooks, [i \in 1..Len(mdLog) |-> mdLog[i].book])
  /\ Len(mdLog) + Len(SelectSeq(booked, LAMBDA t : t.tradeId[1] # "TRADE-EXECUTE-")) = tradeEvents
  /\ HoldsLatest(algoExecutions, executionsFile)
  /\ HoldsLatest(executionOrders, executionsFile)
  /\ HoldsLatest(historicalExecutions, executionsFile)
  /\ Len(executionsFile) = numID
  /\ Len(SelectSeq(booked, LAMBDA t : t.tradeId[1] = "TRADE-EXECUTE-")) = Len(executionsFile)
  /\ DOMAIN trades = { booked[i].tradeId : i \in 1..Len(booked) }
  /\ \A id \in DOMAIN trades :
       LET same == SelectSeq(booked, LAMBDA t : t.tradeId = id)
       IN  trades[id] = same[Len(same)]
  /\ Len(positionCalls) = Len(booked) + Len(executionsFile)
  /\ HoldsLatest(pvs, riskFile)
  /\ HoldsLatest(historicalRisks, riskFile)
  /\ Len(riskFile) = Len(positionCalls)
  /\ HoldsLatest(historicalPositions, positionsFile)

\* the position service: every Position handed to OnMessage is the one
\* AddTrade has just stored, and each listener is given it once
PositionOnMessageNotifies ==
  /\ HoldsLatest(positions, positionsFile)
  /\ Len(positionsFile) = Len(positionCalls)
  /\ \A k \in 1..Len(positionCalls) :
       Len(positionCalls[k].toRisk) = 1 /\ Len(positionCalls[k].toHistorical) = 1

\* C17 as stated, for the inquiry service: whatever its state, an inquiry
\* handed to OnMessage is stored under its identifier and every listener is
\* invoked once
InquiryOnMessageUpserts ==
  lastCall.op = "OnMessage" =>
    /\ lastCall.data.inquiryId \in DOMAIN inquiries
    /\ inquiries[lastCall.data.inquiryId].inquiryId = lastCall.data.inquiryId
    /\ Len(lastCall.notified) = 1

\* C17 as stated: in every service of the pipeline, each OnMessage(v) upserts
\* v into the service's store under v's key and invokes ProcessAdd(v) exactly
\* once on every listener registered on the service
C17_EveryOnMessageUpsertsAndNotifies ==
  /\ PricePipelineUpserts
  /\ TradePipelineUpserts
  /\ PositionOnMessageNotifies
  /\ InquiryOnMessageUpserts

\* what InquiryService::OnMessage does, by the state of the inquiry on entry
InquiryOnMessageByState ==
  lastCall.op = "OnMessage" =>
    CASE lastCall.data.state = "RECEIVED" ->
           /\ lastCall.data.inquiryId \in DOMAIN inquiries
           /\ inquiries[lastCall.data.inquiryId] = [lastCall.data EXCEPT !.state = "DONE"]
           /\ lastCall.notified = <<inquiries[lastCall.data.inquiryId]>>
      [] lastCall.data.state = "QUOTED" ->
           /\ lastCall.data.inquiryId \in DOMAIN inquiries
           /\ inquiries[lastCall.data.inquiryId] = [lastCall.data EXCEPT !.state = "DONE"]
           /\ lastCall.notified = <<>>
      [] OTHER ->
           /\ ~lastCall.stored
           /\ lastCall.notified = <<>>

\* C17, as the code has it: pricing, algo streaming, streaming, market data,
\* algo execution, execution, trade booking, risk and GUI store every value
\* handed to OnMessage under its key and invoke each registered listener
\* once; the position service's OnMessage only invokes the listeners, on the
\* Position AddTrade has stored; the historical services store and write
\* their file; the inquiry service stores and notifies once for RECEIVED,
\* stores DONE without notifying for QUOTED and ignores the other states
C17_OnMessageByService ==
  /\ PricePipelineUpserts
  /\ TradePipelineUpserts
  /\ PositionOnMessageNotifies
  /\ InquiryOnMessageByState

C17_Witness ==
  /\ feed = "trades"
  /\ Len(executionsFile) = 1 /\ Len(booked) = 3
  /\ Len(riskFile) = 4 /\ Len(positionsFile) = 4
  /\ DOMAIN orderBooks = DOMAIN executionOrders

DriverDone ==
  \/ feed = "prices" /\ priceLines = MaxPriceLines
  \/ feed = "trades" /\ tradeEvents = MaxTradeEvents
  \/ feed = "inquiries" /\ inquiryEvents = MaxInquiryEvents

\* C19: the driver subscribes to all four input files, so every line of
\* marketdata.txt has been delivered to the market data service by the time
\* the driver has read its inputs, and a file holding an order book with
\* spread <= 1/128 has left a record in executions.txt
C19_MarketDataReadByDriver ==
  DriverDone =>
    /\ mdPos = Len(mdFile)
    /\ Len(mdLog) = Len(mdFile) \div 10

\* the lines of marketdata.txt read so far whose side token is BID or OFFER
KnownSideLinesRead == { i \in 1..mdPos : mdFile[i][4] \in {"BID", "OFFER"} }

\* C20: an input record with an unknown enum token is skipped: it updates no
\* store, triggers no notification and does not change how the following
\* records are grouped; for marketdata.txt, a line whose side is neither BID
\* nor OFFER adds no order and the order books are made of the ten-line
\* groups of the other lines
C20_UnknownTokenLineSkipped ==
  /\ Len(mdLog) = Cardinality(KnownSideLinesRead) \div 10
  /\ Len(bidStacks) + Len(offerStacks) = Cardinality(KnownSideLinesRead) % 10
  /\ \A k \in 1..Len(mdLog) :
       Len(mdLog[k].book.bidStack) + Len(mdLog[k].book.offerStack) = 10

\* the order books that made algo execution emit, in order
EmittingBooks == SelectSeq(mdLog, LAMBDA e : e.emitted = 1)

\* C21: every execution order algo execution emits is a MARKET order for the
\* book's instrument with hiddenQuantity 0, parentOrderId "NA" and
\* isChildOrder false; on the buy turn it has side BID, the book's best offer
\* price and best offer quantity, otherwise side OFFER, the book's best bid
\* price and best bid quantity
C21_OrderCrossesTheBook ==
  /\ Len(EmittingBooks) = Len(executionsFile)
  /\ \A k \in 1..Len(executionsFile) :
       LET order == executionsFile[k]
           book == EmittingBooks[k].book
           best == GetBestBidOffer(book)
       IN  /\ order.orderType = "MARKET"
           /\ order.product = book.product
           /\ order.hiddenQuantity = 0
           /\ order.parentOrderId = "NA"
           /\ order.isChildOrder = FALSE
           /\ order.side = (IF k % 2 = 1 THEN "BID" ELSE "OFFER")
           /\ order.side = "BID" =>
                /\ order.price = best.offerOrder.price
                /\ order.visibleQuantity = best.offerOrder.quantity
           /\ order.side = "OFFER" =>
                /\ order.price = best.bidOrder.price
                /\ order.visibleQuantity = best.bidOrder.quantity

\* C22: the k-th execution order emitted (k = 0, 1, 2, ...) has orderId the
\* decimal string of k; the orderIds are pairwise distinct; numID goes up by
\* one on each emission and only then
C22_OrderIdsCountEmissions ==
  /\ numID = Len(executionsFile)
  /\ \A k \in 1..Len(executionsFile) : executionsFile[k].orderId = to_string(k - 1)
  /\ \A j, k \in 1..Len(executionsFile) :
       j # k => executionsFile[j].orderId # executionsFile[k].orderId
  /\ Len(executionsFile) > 0 => executionsFile[1].orderId = <<"0">>
  /\ Len(executionsFile) > 1 => executionsFile[2].orderId = <<"1">>

C22_Witness ==
  /\ Len(mdLog) = 3
  /\ mdLog[1].emitted = 1 /\ mdLog[2].emitted = 0 /\ mdLog[3].emitted = 1
  /\ numID = 2
  /\ executionsFile[2].orderId = <<"1">>

\* the trades derived from execution orders, in the order they were derived
DerivedTrades == SelectSeq(booked, IsExecutionDerived)

\* C23: the trade derived from an execution order has tradeId
\* "TRADE-EXECUTE-" + orderId, the order's instrument and price, side BUY for
\* a BID order and SELL for an OFFER order, and quantity = visibleQuantity +
\* hiddenQuantity
C23_DerivedTradeFields ==
  /\ Len(DerivedTrades) = Len(executionsFile)
  /\ \A k \in 1..Len(executionsFile) :
       LET order == executionsFile[k]
           trade == DerivedTrades[k]
       IN  /\ trade.tradeId = <<"TRADE-EXECUTE-">> \o order.orderId
           /\ trade.product = order.product
           /\ trade.price = order.price
           /\ trade.side = (IF order.side = "BID" THEN "BUY" ELSE "SELL")
           /\ order.side \in {"BID", "OFFER"}
           /\ trade.quantity = order.visibleQuantity + order.hiddenQuantity
           /\ trades[trade.tradeId].quantity = order.visibleQuantity + order.hiddenQuantity

C23_Witness ==
  /\ Len(executionsFile) = 3
  /\ executionsFile[1].hiddenQuantity = 5 /\ executionsFile[1].side = "OFFER"
  /\ DerivedTrades[1].quantity = 7 /\ DerivedTrades[1].side = "SELL"
  /\ executionsFile[2].hiddenQuantity = 0 /\ DerivedTrades[2].quantity = 3
  /\ DerivedTrades[2].tradeId = <<"TRADE-EXECUTE-", "0">>

\* C24: REJECTED and CUSTOMER_REJECTED are terminal: once the stored state of
\* an inquiryId is one of them, no operation on the inquiry service (OnMessage
\* for that inquiryId in any state, SendQuote, RejectInquiry) changes it
C24_RejectedIsTerminal ==
  [][\A id \in DOMAIN inquiries :
       inquiries[id].state \in {"REJECTED", "CUSTOMER_REJECTED"} =>
         /\ id \in DOMAIN inquiries'
         /\ inquiries'[id].state = inquiries[id].state]_vars

\* the orders that the lines first..last of marketdata.txt with the given
\* side token stand for, in the order of the lines
OrdersOfLines(first, last, side) ==
  LET lines == SubSeq(mdFile, first, last)
      those == SelectSeq(lines, LAMBDA l : l[4] = side)
  IN  [i \in 1..Len(those) |-> Order(GetNormalPrice(those[i][2]), StoI(those[i][3]), side)]

\* C25: every order book the market data subscriber emits holds exactly the
\* orders of the 10 lines of its own group: the BID lines in arrival order in
\* the bid stack, the OFFER lines in arrival order in the offer stack, and
\* nothing carried over from an earlier group
C25_BookHoldsItsGroup ==
  \A k \in 1..Len(mdLog) :
    /\ mdLog[k].book.bidStack = OrdersOfLines(10 * k - 9, 10 * k, "BID")
    /\ mdLog[k].book.offerStack = OrdersOfLines(10 * k - 9, 10 * k, "OFFER")

C25_Witness ==
  /\ Len(mdLog) = 2
  /\ Len(mdLog[2].book.bidStack) >= 2 /\ Len(mdLog[2].book.offerStack) >= 2
  /\ \E i \in 1..(Len(mdLog[2].book.bidStack) - 1) :
       mdLog[2].book.bidStack[i].price # mdLog[2].book.bidStack[i + 1].price
  /\ mdLog[2].book.bidStack # mdLog[1].book.bidStack
  /\ Len(mdLog[2].book.bidStack) + Len(mdLog[2].book.offerStack) < 10

\* C26: the instrument of an emitted order book is the identifier on the
\* 10th line of its group; the orders of lines 1..9 are placed in it even
\* when they carry another identifier; the book stored under any other
\* identifier is left as it was
C26_TenthLineNamesTheBook ==
  /\ \A k \in 1..Len(mdLog) :
       /\ mdLog[k].book.product = GetProductType(mdFile[10 * k][1])
       /\ Len(mdLog[k].book.bidStack) + Len(mdLog[k].book.offerStack)
            = Cardinality({ i \in (10 * k - 9)..(10 * k) : mdFile[i][4] \in {"BID", "OFFER"} })
  /\ HoldsLatest(orderBooks, [i \in 1..Len(mdLog) |-> mdLog[i].book])

C26_Witness ==
  /\ Len(mdLog) = 2
  /\ mdFile[10][1] # mdFile[9][1]
  /\ mdFile[20][1] # mdFile[10][1]
  /\ DOMAIN orderBooks = Cusips
  /\ orderBooks[mdFile[10][1]] = mdLog[1].book
  /\ orderBooks[mdFile[20][1]] = mdLog[2].book
  /\ mdLog[1].book.bidStack # <<>>

\* order is the first order of stack at its price, and no order of stack
\* has a higher price (sign = 1) or a lower one (sign = -1)
FirstBest(order, stack, sign) ==
  \E i \in 1..Len(stack) :
    /\ stack[i] = order
    /\ \A j \in 1..Len(stack) : sign * stack[j].price <= sign * order.price
    /\ \A j \in 1..(i - 1) : stack[j].price # order.price

\* C27: for a book whose two stacks are non-empty, GetBestBidOffer returns
\* the highest bid and the lowest offer, the first one among equal prices,
\* and leaves the book as it was
C27_BestBidOfferOfBook ==
  (/\ bookQuery.op = "GetBestBidOffer"
   /\ bookQuery.before.bidStack # <<>>
   /\ bookQuery.before.offerStack # <<>>)
  => /\ FirstBest(bookQuery.bidOffer.bidOrder, bookQuery.before.bidStack, 1)
     /\ FirstBest(bookQuery.bidOffer.offerOrder, bookQuery.before.offerStack, -1)
     /\ bookQuery.after = bookQuery.before

\* the prices of a stack
PricesOf(stack) == { stack[i].price : i \in 1..Len(stack) }

\* stack holds one order per price of the stack it was built from, with the
\* summed quantity of that price
OnePerPrice(stack, from) ==
  /\ PricesOf(stack) = PricesOf(from)
  /\ Len(stack) = Cardinality(PricesOf(from))
  /\ \A i \in 1..Len(stack) : stack[i].quantity = QuantityAt(from, stack[i].price)

\* C28: AggregateMarketData returns, for each side, one order per distinct
\* price of the stored stack with the summed quantity of that price, and
\* leaves the stored book as it was
C28_AggregatePerPrice ==
  bookQuery.op = "AggregateMarketData"
  => /\ OnePerPrice(bookQuery.stacks.bidStack, bookQuery.before.bidStack)
     /\ OnePerPrice(bookQuery.stacks.offerStack, bookQuery.before.offerStack)
     /\ bookQuery.after = bookQuery.before

\* the step delivers an order book to the market data service and algo
\* execution emits no order for it
QuietBookUpdate ==
  /\ Len(mdLog') = Len(mdLog) + 1
  /\ mdLog'[Len(mdLog')].emitted = 0

\* C29: an order-book update for which algo execution emits no order leaves
\* the direction, numID and the stored executions of algo execution as they
\* were, and neither the execution, trade booking, position and risk
\* services nor their files change
C29_QuietUpdateFrame ==
  [][QuietBookUpdate =>
       UNCHANGED <<algoExecutions, isBuy, numID, executionOrders,
                   historicalExecutions, executionsFile, trades, num, positions,
                   historicalPositions, positionsFile, pvs, historicalRisks,
                   riskFile, booked, positionCalls, written>>]_vars

C29_Witness ==
  /\ Len(mdLog) = 2
  /\ mdLog[1].emitted = 1 /\ mdLog[2].emitted = 0
  /\ LET best == GetBestBidOffer(mdLog[2].book)
     IN  ~CrossesSpread(best.bidOrder.price, best.offerOrder.price)
  /\ numID = 1 /\ ~isBuy
  /\ Len(executionsFile) = 1 /\ Len(booked) = 2
  /\ mdLog[2].book.product.productId \in DOMAIN orderBooks
  /\ orderBooks[mdLog[2].book.product.productId] = mdLog[2].book

QuotedDelivered == lastCall.op = "OnMessage" /\ lastCall.data.state = "QUOTED"

\* C30: an inquiry delivered in state QUOTED is stored, with its other
\* fields as delivered, in state DONE, and no listener is notified for it
C30_QuotedStoredDoneSilently ==
  QuotedDelivered =>
    /\ lastCall.data.inquiryId \in DOMAIN inquiries
    /\ inquiries[lastCall.data.inquiryId] = [lastCall.data EXCEPT !.state = "DONE"]
    /\ lastCall.notified = <<>>

C30_Witness ==
  /\ QuotedDelivered
  /\ inquiryEvents = 2
  /\ Len(allinquiriesFile) = 1
  /\ allinquiriesFile[1].inquiryId # lastCall.data.inquiryId
  /\ inquiries[lastCall.data.inquiryId].state = "DONE"
  /\ lastCall.transitions = 1

\* the state that inquiries[id] yields: the stored one, or that of the
\* inquiry operator[] inserts
StateRead(id) ==
  IF id \in DOMAIN inquiries THEN inquiries[id].state ELSE DefaultInquiry.state

\* the step is a call of op on the inquiry service
InquiryCallStep(op) == inquiryEvents' = inquiryEvents + 1 /\ lastCall'.op = op

\* C31: SendQuote(id, price) on an inquiry it reads in state RECEIVED sets
\* its price and ends with it stored in state DONE after one QUOTED-to-DONE
\* transition and one listener notification; on an inquiry in any other
\* state it leaves the store as it was and notifies no listener
C31_SendQuoteQuotesReceivedOnly ==
  [][InquiryCallStep("SendQuote") =>
       LET id == lastCall'.data.inquiryId
       IN  IF StateRead(id) = "RECEIVED"
           THEN /\ id \in DOMAIN inquiries'
                /\ inquiries'[id].state = "DONE"
                /\ inquiries'[id].price = lastCall'.data.price
                /\ lastCall'.transitions = 1
                /\ Len(lastCall'.notified) = 1
                /\ lastCall'.notified[1] = inquiries'[id]
           ELSE /\ inquiries' = inquiries
                /\ lastCall'.notified = <<>>
                /\ allinquiriesFile' = allinquiriesFile]_vars

C31_Witness ==
  /\ lastCall.op = "SendQuote"
  /\ inquiryEvents = 2
  /\ Len(lastCall.notified) = 1
  /\ Len(allinquiriesFile) = 2
  /\ inquiries[lastCall.data.inquiryId].state = "DONE"
  /\ inquiries[lastCall.data.inquiryId].price = lastCall.data.price
  /\ \E other \in DOMAIN inquiries :
       other # lastCall.data.inquiryId /\ inquiries[other].price # lastCall.data.price

\* C32: RejectInquiry(id) leaves inquiry id stored in state REJECTED
\* whatever its state was, with its other fields as they were, notifies no
\* listener and leaves every other stored inquiry as it was
C32_RejectInquiryFrame ==
  [][InquiryCallStep("RejectInquiry") =>
       LET id == lastCall'.data.inquiryId
           was == IF id \in DOMAIN inquiries THEN inquiries[id] ELSE DefaultInquiry
       IN  /\ DOMAIN inquiries' = DOMAIN inquiries \cup {id}
           /\ inquiries'[id] = [was EXCEPT !.state = "REJECTED"]
           /\ \A other \in DOMAIN inquiries \ {id} : inquiries'[other] = inquiries[other]
           /\ lastCall'.notified = <<>>
           /\ allinquiriesFile' = allinquiriesFile
           /\ historicalInquiries' = historicalInquiries]_vars

C32_Witness ==
  /\ lastCall.op = "RejectInquiry"
  /\ inquiryEvents = 3
  /\ Len(allinquiriesFile) = 2
  /\ allinquiriesFile[1].inquiryId = lastCall.data.inquiryId
  /\ allinquiriesFile[1].state = "DONE"
  /\ inquiries[lastCall.data.inquiryId].state = "REJECTED"
  /\ inquiries[allinquiriesFile[2].inquiryId].state = "DONE"
  /\ allinquiriesFile[2].inquiryId # lastCall.data.inquiryId

\* C33: a price update that arrives no more than 300 ms after lastTime
\* leaves lastTime, the GUI store and gui.txt as they were; a record is
\* appended to gui.txt only in the step its price arrives, stamped with that
\* arrival time, so a dropped price is not written later; lastTime is shared
\* by all instruments
C33_DroppedUpdateFrame ==
  [][priceLines' = priceLines + 1 =>
       /\ now' - lastTime <= throttle => UNCHANGED <<guiFile, guis, lastTime>>
       /\ guiFile' # guiFile =>
            LET r == guiFile'[Len(guiFile')]
            IN  /\ guiFile' = Append(guiFile, r)
                /\ r.time = now'
                /\ r.price.product.productId \in DOMAIN prices'
                /\ prices'[r.price.product.productId] = r.price
                /\ guis' = Put(guis, r.price.product.productId, r.price)]_vars

\* an update of one instrument is dropped because another instrument's
\* update has just been written
C33_Witness ==
  /\ Len(arrivals) = 2
  /\ Len(guiFile) = 1
  /\ guiFile[1].time = arrivals[1]
  /\ arrivals[2] - arrivals[1] <= 300
  /\ lastTime = arrivals[1]
  /\ DOMAIN prices = Cusips
  /\ DOMAIN guis = {guiFile[1].price.product.productId}
  /\ Len(streamingFile) = 2

\* C34: every execution order algo execution emits reaches trade booking
\* once and the execution persistence once, as emitted: executions.txt holds
\* one record per emission, in emission order, one trade is derived per
\* emission, in the same order, and the stores of algo execution and of the
\* execution service hold the same latest order per instrument
C34_ExecutionPassthrough ==
  /\ Len(executionsFile) = numID
  /\ Len(DerivedTrades) = numID
  /\ \A k \in 1..numID :
       /\ executionsFile[k].orderId = to_string(k - 1)
       /\ DerivedTrades[k].tradeId = <<"TRADE-EXECUTE-">> \o to_string(k - 1)
       /\ DerivedTrades[k].product = executionsFile[k].product
  /\ HoldsLatest(algoExecutions, executionsFile)
  /\ HoldsLatest(executionOrders, executionsFile)
  /\ HoldsLatest(historicalExecutions, executionsFile)

C34_Witness ==
  /\ numID = 2
  /\ Len(executionsFile) = 2
  /\ executionsFile[1].product # executionsFile[2].product
  /\ Len(booked) = 3
  /\ ~IsExecutionDerived(booked[2])
  /\ DOMAIN executionOrders = Cusips

\* C35: every price line appends exactly one record to streaming.txt, the
\* PriceStream built from the price of that line, which the algo streaming,
\* streaming and historical services all hold as built; the record of a line
\* is appended in the step of that line, so the records are in input order
\* and those of a line come before those of every later line
C35_OneStreamPerPriceLine ==
  [][priceLines' = priceLines + 1 =>
       /\ Len(streamingFile) = priceLines
       /\ Len(streamingFile') = Len(streamingFile) + 1
       /\ LET r == streamingFile'[Len(streamingFile')]
              c == r.product.productId
          IN  /\ streamingFile' = Append(streamingFile, r)
              /\ c \in DOMAIN prices'
              /\ r = AlgoStream(prices'[c], isFirst)
              /\ algoStreams' = Put(algoStreams, c, r)
              /\ priceStreams' = Put(priceStreams, c, r)
              /\ historicalStreams' = Put(historicalStreams, c, r)
              /\ prices' # prices => prices' = Put(prices, c, prices'[c])
       /\ Len(guiFile') <= Len(guiFile) + 1
       /\ Len(guiFile') = Len(guiFile) + 1 =>
            /\ guiFile'[Len(guiFile')].time = now'
            /\ SubSeq(guiFile', 1, Len(guiFile)) = guiFile]_vars

C35_Witness ==
  /\ priceLines = 3
  /\ Len(streamingFile) = 3
  /\ streamingFile[1].product # streamingFile[2].product
  /\ streamingFile[2].bidOrder.price # streamingFile[3].bidOrder.price
  /\ streamingFile[2].product = streamingFile[3].product
  /\ priceStreams[streamingFile[3].product.productId] = streamingFile[3]
  /\ Len(guiFile) = 2

\* the calls of PositionService::AddTrade made for execution-derived trades
DerivedPositionCalls == SelectSeq(positionCalls, LAMBDA call : IsExecutionDerived(call.trade))

\* C36: each execution order trade booking receives causes exactly one Trade
\* notification to trade booking's listeners, hence one Position record and
\* one PV01 record per execution order
C36_OneNotificationPerOrder ==
  /\ Len(DerivedPositionCalls) = Len(DerivedTrades)
  /\ Len(positionsFile) = Len(booked)
  /\ Len(riskFile) = Len(booked)

\* the booked trades that carry tradeId id, in booking order
WithTradeId(id) == SelectSeq(booked, LAMBDA t : t.tradeId = id)

\* C37: the trade-booking store holds, for each tradeId received, the latest
\* trade received with it; after the execution orders 0..n-1 it holds
\* exactly n execution-derived trades; the stores of the execution service
\* and of algo execution hold the latest execution order of each instrument
C37_StoresHoldLatest ==
  /\ DOMAIN trades = { booked[i].tradeId : i \in 1..Len(booked) }
  /\ \A id \in DOMAIN trades :
       LET with == WithTradeId(id) IN trades[id] = with[Len(with)]
  /\ { id \in DOMAIN trades : Head(id) = "TRADE-EXECUTE-" }
       = { <<"TRADE-EXECUTE-">> \o to_string(k) : k \in 0..(numID - 1) }
  /\ Cardinality({ id \in DOMAIN trades : Head(id) = "TRADE-EXECUTE-" }) = numID
  /\ DOMAIN executionOrders = { executionsFile[i].product.productId : i \in 1..Len(executionsFile) }
  /\ DOMAIN algoExecutions = DOMAIN executionOrders
  /\ \A c \in DOMAIN executionOrders :
       LET about == AboutProduct(executionsFile, c)
       IN  executionOrders[c] = about[Len(about)] /\ algoExecutions[c] = about[Len(about)]

C37_Witness ==
  /\ numID = 2
  /\ Cardinality(DOMAIN executionOrders) = 1
  /\ Cardinality(DOMAIN trades) = 3
  /\ \E c \in DOMAIN executionOrders : executionOrders[c].orderId = <<"1">>
  /\ Len(booked) = 3

\* C38: of the trades booked with one tradeId the trade-booking store keeps
\* the last only, while the position service is called for every one of
\* them and adds its signed quantity to the position of its instrument and
\* book
C38_SameIdCountedEachTime ==
  /\ \A i \in 1..Len(booked) :
       \A j \in (i + 1)..Len(booked) :
         (booked[i].tradeId = booked[j].tradeId
            /\ \A k \in (j + 1)..Len(booked) : booked[k].tradeId # booked[j].tradeId)
         => trades[booked[i].tradeId] = booked[j]
  /\ Len(positionCalls) = Len(booked)
  /\ \A k \in 1..Len(booked) :
       LET call == positionCalls[k]
           c == call.trade.product.productId
           b == call.trade.book
           signed == IF call.trade.side = "BUY" THEN call.trade.quantity
                     ELSE 0 - call.trade.quantity
       IN  /\ call.trade = booked[k]
           /\ PositionIn(call.after, c, b) = PositionIn(call.before, c, b) + signed

C38_Witness ==
  /\ Len(booked) = 2
  /\ booked[1].tradeId = booked[2].tradeId
  /\ booked[1].product = booked[2].product
  /\ booked[1].side = "BUY" /\ booked[2].side = "BUY"
  /\ Cardinality(DOMAIN trades) = 1
  /\ PositionIn(positions, booked[1].product.productId, booked[1].book)
       = 2 * booked[1].quantity

\* C39: an inquiry delivered in state DONE, REJECTED or CUSTOMER_REJECTED is
\* not stored and not passed to a listener: the inquiry store, the
\* historical store and allinquiries.txt are as they were
C39_FinishedInquiryIgnored ==
  [][(/\ InquiryCallStep("OnMessage")
      /\ lastCall'.data.state \in {"DONE", "REJECTED", "CUSTOMER_REJECTED"})
     => /\ UNCHANGED <<inquiries, historicalInquiries, allinquiriesFile, transitions>>
        /\ lastCall'.notified = <<>>
        /\ lastCall'.transitions = 0]_vars

C39_Witness ==
  /\ lastCall.op = "OnMessage"
  /\ lastCall.data.state = "CUSTOMER_REJECTED"
  /\ inquiryEvents = 2
  /\ Len(allinquiriesFile) = 1
  /\ DOMAIN inquiries = {allinquiriesFile[1].inquiryId}
  /\ lastCall.data.inquiryId \notin DOMAIN inquiries

\* C40: between calls no stored inquiry is in state RECEIVED or QUOTED: each
\* is DONE, or REJECTED after RejectInquiry; a RECEIVED inquiry is taken
\* through QUOTED to DONE once within its own OnMessage call, so SendQuote
\* leaves every inquiry that came in through OnMessage as it is
C40_NoInquiryLeftOpen ==
  /\ [](\A id \in DOMAIN inquiries : inquiries[id].state \in {"DONE", "REJECTED"})
  /\ [](ReceivedDelivered => lastCall.transitions = 1)
  /\ [][InquiryCallStep("OnMessage") =>
          \A id \in DOMAIN inquiries' :
            inquiries'[id].state = "REJECTED" =>
              (id \in DOMAIN inquiries /\ inquiries[id].state = "REJECTED")]_vars
  /\ [][InquiryCallStep("SendQuote") =>
          \A id \in DOMAIN inquiries :
            inquiries[id].inquiryId = id => inquiries'[id] = inquiries[id]]_vars

C40_Witness ==
  /\ lastCall.op = "SendQuote"
  /\ inquiryEvents = 3
  /\ lastCall.notified = <<>>
  /\ Len(allinquiriesFile) = 1
  /\ lastCall.data.inquiryId \in DOMAIN inquiries
  /\ inquiries[lastCall.data.inquiryId] = allinquiriesFile[1]
  /\ inquiries[lastCall.data.inquiryId].price # lastCall.data.price
  /\ \E id \in DOMAIN inquiries : inquiries[id].state = "REJECTED"

====
